---------------------------- MODULE Spec2Model ----------------------------
(***************************************************************************)
(* Clide: the risk classifier (src/src/safety.py), the confirmation        *)
(* orchestrator (src/src/bot.py) and the execution engine                  *)
(* (src/src/executor.py).                                                  *)
(*                                                                         *)
(* Command texts are TLA+ strings.  Every matching operation of the code   *)
(* (regular-expression search, substring test, prefix test, strip, lower)  *)
(* works on the characters of the text, as the Python code does.           *)
(***************************************************************************)
EXTENDS Integers, Sequences, FiniteSets, TLC

VARIABLES
    \* ---- Safety object (safety.py, Safety.__init__) ----
    safety_level,           \* self.safety_level
    blocked_patterns,       \* self.blocked_patterns: caller-supplied extensions
    confirmation_commands,  \* self.confirmation_commands: caller-supplied extensions
    \* ---- one call of the classifier ----
    command,                \* the command text handed to check_command
    result,                 \* the SafetyResult it returned, or NoResult
    path,                   \* the path handed to check_file_operation
    operation,              \* the operation handed to check_file_operation
    allow_sudo,             \* the allow_sudo handed to validate_ssh_command
    \* ---- ClideBot object (bot.py) ----
    confirm_all,            \* self.config.safety.confirm_all
    pending_confirmations,  \* self.pending_confirmations: user -> entry
    current_vps,            \* self.current_vps: user -> vps name
    executing,              \* handlers suspended in the send of "Executing..."
    clock,                  \* time.time(): a later reading is larger
    received,               \* number of messages delivered so far
    \* ---- the latest handler step ----
    handled,                \* what it handled (message and interpreter output)
    sent,                   \* what it passed to context.send
    results,                \* the calls of executor.execute it made
    \* ---- history of the confirmations ----
    confirmed,              \* the entries consumed by an affirmative response
    cancelled,              \* the entries consumed by a negative response
    \* ---- Executor object (executor.py) and one call of it ----
    max_retries,            \* self.max_retries
    xcall,                  \* the call in progress and its arguments
    exec_pc,                \* the position of the call in the code
    retries,                \* the local variable retries
    attempts,               \* the attempts made so far and how each ended
    ssh,                    \* the local variable ssh: "none" or "open"
    sessions_open,          \* SSH clients created and not closed
    sessions_opened,        \* SSH clients created
    returning,              \* the value of a return waiting for the finally clause
    exec_result,            \* the ExecutionResult returned, or NoExecResult
    \* ---- one call of Executor.execute_batch ----
    batch,                  \* commands
    batch_remote,           \* vps and ssh_config are given
    stop_on_error,          \* stop_on_error
    batch_results,          \* results
    batch_pc,               \* the position of the call in the code
    \* ---- configuration and interpreter (config.py, brain.py) ----
    admin_only,             \* self.config.signal.admin_only
    allowed_numbers,        \* self.config.signal.allowed_numbers
    requires_confirmation_hint, \* command_data['requires_confirmation']
    \* ---- Memory object (memory.py) and the batch being executed ----
    history,                \* the rows of the table commands, oldest first
    handed,                 \* the commands passed to executor.execute so far
    running                 \* the arguments of _execute_commands inside a call

safetyVars == <<safety_level, blocked_patterns, confirmation_commands>>
callVars == <<command, result, path, operation, allow_sudo>>
botVars == <<confirm_all, pending_confirmations, current_vps, executing, clock,
             received, handled, sent, results, confirmed, cancelled>>
execVars == <<max_retries, xcall, exec_pc, retries, attempts, ssh, sessions_open,
              sessions_opened, returning, exec_result>>
batchVars == <<batch, batch_remote, stop_on_error, batch_results, batch_pc>>
envVars == <<admin_only, allowed_numbers, requires_confirmation_hint>>
memVars == <<history, handed, running>>
vars == <<safetyVars, callVars, botVars, execVars, batchVars, envVars, memVars>>

---------------------------------------------------------------------------
(* Bounds of the model *)

\* a classified command text is the concatenation of at most MaxChunks chunks
MaxChunks == 3
\* the interpreter returns at most MaxBatch commands in one batch
MaxBatch == 2
\* number of messages delivered in one behaviour
MaxMsgs == 3
\* the configured max_retries of an Executor is at most MaxRetries
MaxRetries == 2

---------------------------------------------------------------------------
(* Text: Python str operations, character by character *)

\* the characters of a text
Chars(s) == [i \in 1..Len(s) |-> SubSeq(s, i, i)]

\* str.isspace() for one character (the ASCII whitespace characters)
WS == {" ", "\t", "\n", "\r", "\f"}

UPPER == "ABCDEFGHIJKLMNOPQRSTUVWXYZ"
LOWER == "abcdefghijklmnopqrstuvwxyz"
DIGITS == "0123456789"

Range(f) == {f[i] : i \in DOMAIN f}

\* upper-case letter -> lower-case letter
LowerMap == [c \in Range(Chars(UPPER)) |->
               LET k == CHOOSE k \in 1..Len(UPPER) : SubSeq(UPPER, k, k) = c
               IN  SubSeq(LOWER, k, k)]

\* str.lower() of one character
LowerCh(c) == IF c \in DOMAIN LowerMap THEN LowerMap[c] ELSE c

RECURSIVE lower(_)
\* str.lower()
lower(s) == IF s = "" THEN "" ELSE LowerCh(SubSeq(s, 1, 1)) \o lower(SubSeq(s, 2, Len(s)))

\* str.strip(): drop leading and trailing whitespace
strip(s) ==
    LET keep == {i \in 1..Len(s) : SubSeq(s, i, i) \notin WS}
    IN  IF keep = {} THEN ""
        ELSE LET a == CHOOSE i \in keep : \A j \in keep : i <= j
                 b == CHOOSE i \in keep : \A j \in keep : j <= i
             IN  SubSeq(s, a, b)

\* str.startswith(prefix)
startswith(s, prefix) ==
    Len(prefix) <= Len(s) /\ SubSeq(s, 1, Len(prefix)) = prefix

\* Python's `sub in s` for strings
contains(s, sub) ==
    \E i \in 1..(Len(s) - Len(sub) + 1) : SubSeq(s, i, i + Len(sub) - 1) = sub

---------------------------------------------------------------------------
(* Regular expressions: re.compile(pattern, re.IGNORECASE) and .search()   *)

\* the pattern constructs the code's patterns use
Lit(s)  == [t |-> "lit", s |-> Chars(lower(s))]   \* literal text
Cls(cs) == [t |-> "cls", cs |-> cs]               \* one character of a set
Dot     == [t |-> "dot"]                          \* .  (any character but newline)
End     == [t |-> "end"]                          \* $
Cat(rs) == [t |-> "cat", rs |-> rs]               \* r1 r2 ...
Alt(rs) == [t |-> "alt", rs |-> rs]               \* r1 | r2 | ...
Opt(r)  == [t |-> "opt", r |-> r]                 \* r?
Star(r) == [t |-> "star", r |-> r]                \* r*
Plus(r) == [t |-> "plus", r |-> r]                \* r+

Space == Cls(WS)                                                  \* \s
Word  == Cls(Range(Chars(LOWER)) \cup Range(Chars(DIGITS)) \cup {"_"})  \* \w

RECURSIVE Ends(_, _, _), CatEnds(_, _, _, _), Closure(_, _, _, _)

\* The positions at which a match of r that starts at position i of the
\* character sequence cs can end (the position after its last character).
\* Matching ignores case (re.IGNORECASE).
Ends(r, cs, i) ==
    CASE r.t = "lit" ->
           IF /\ i + Len(r.s) - 1 <= Len(cs)
              /\ \A k \in 1..Len(r.s) : LowerCh(cs[i + k - 1]) = r.s[k]
           THEN {i + Len(r.s)} ELSE {}
      [] r.t = "cls" ->
           IF i <= Len(cs) /\ LowerCh(cs[i]) \in r.cs THEN {i + 1} ELSE {}
      [] r.t = "dot" ->
           IF i <= Len(cs) /\ cs[i] # "\n" THEN {i + 1} ELSE {}
      [] r.t = "end" ->
           IF i = Len(cs) + 1 \/ (i = Len(cs) /\ cs[i] = "\n") THEN {i} ELSE {}
      [] r.t = "cat" -> CatEnds(r.rs, 1, cs, {i})
      [] r.t = "alt" -> UNION {Ends(r.rs[k], cs, i) : k \in 1..Len(r.rs)}
      [] r.t = "opt" -> {i} \cup Ends(r.r, cs, i)
      [] r.t = "star" -> Closure(r.r, cs, {i}, {i})
      [] r.t = "plus" -> LET first == Ends(r.r, cs, i)
                         IN  Closure(r.r, cs, first, first)

\* the ends of rs[k], rs[k+1], ... matched one after the other from a start in from
CatEnds(rs, k, cs, from) ==
    IF k > Len(rs) \/ from = {} THEN from
    ELSE CatEnds(rs, k + 1, cs, UNION {Ends(rs[k], cs, i) : i \in from})

\* the ends of zero or more further matches of r from the positions in frontier
Closure(r, cs, frontier, seen) ==
    LET more == UNION {Ends(r, cs, i) : i \in frontier} \ seen
    IN  IF more = {} THEN seen ELSE Closure(r, cs, more, seen \cup more)

\* pattern.search(text): the pattern matches somewhere in the text
search(r, text) ==
    LET cs == Chars(text)
    IN  \E i \in 1..(Len(cs) + 1) : Ends(r, cs, i) # {}

---------------------------------------------------------------------------
(* Safety: the rule sets (safety.py, class Safety) *)

\* Patterns that are ALWAYS blocked, in list order
CRITICAL_PATTERNS == <<
    \* rm\s+(-rf?|--force|--recursive)?\s*/\s*$
    Cat(<<Lit("rm"), Plus(Space),
          Opt(Alt(<<Cat(<<Lit("-r"), Opt(Lit("f"))>>), Lit("--force"), Lit("--recursive")>>)),
          Star(Space), Lit("/"), Star(Space), End>>),
    \* dd\s+if=/dev/zero
    Cat(<<Lit("dd"), Plus(Space), Lit("if=/dev/zero")>>),
    \* mkfs\.*
    Cat(<<Lit("mkfs"), Star(Lit("."))>>),
    \* :\(\)\{.*\|\:&\}\;\:
    Cat(<<Lit(":(){"), Star(Dot), Lit("|:&};:")>>),
    \* chmod\s+(-R\s+)?777\s+/
    Cat(<<Lit("chmod"), Plus(Space), Opt(Cat(<<Lit("-R"), Plus(Space)>>)),
          Lit("777"), Plus(Space), Lit("/")>>),
    \* >\s*/dev/sd[a-z]
    Cat(<<Lit(">"), Star(Space), Lit("/dev/sd"), Cls(Range(Chars(LOWER)))>>),
    \* fdisk.*--wipe
    Cat(<<Lit("fdisk"), Star(Dot), Lit("--wipe")>>) >>

\* Patterns that require confirmation, in list order
HIGH_RISK_PATTERNS == <<
    \* rm\s+(-rf?|--force|--recursive)
    Cat(<<Lit("rm"), Plus(Space),
          Alt(<<Cat(<<Lit("-r"), Opt(Lit("f"))>>), Lit("--force"), Lit("--recursive")>>)>>),
    \* dd\s+
    Cat(<<Lit("dd"), Plus(Space)>>),
    \* mkfs\.
    Lit("mkfs."),
    \* userdel\s+
    Cat(<<Lit("userdel"), Plus(Space)>>),
    \* deluser\s+
    Cat(<<Lit("deluser"), Plus(Space)>>),
    \* passwd\s+
    Cat(<<Lit("passwd"), Plus(Space)>>),
    \* usermod\s+
    Cat(<<Lit("usermod"), Plus(Space)>>),
    \* shutdown\s+
    Cat(<<Lit("shutdown"), Plus(Space)>>),
    \* reboot
    Lit("reboot"),
    \* halt
    Lit("halt"),
    \* init\s+[06]
    Cat(<<Lit("init"), Plus(Space), Cls({"0", "6"})>>),
    \* systemctl\s+(stop|disable|mask)
    Cat(<<Lit("systemctl"), Plus(Space), Alt(<<Lit("stop"), Lit("disable"), Lit("mask")>>)>>),
    \* service\s+\w+\s+stop
    Cat(<<Lit("service"), Plus(Space), Plus(Word), Plus(Space), Lit("stop")>>),
    \* kill\s+(-9\s+)?1\s*$
    Cat(<<Lit("kill"), Plus(Space), Opt(Cat(<<Lit("-9"), Plus(Space)>>)),
          Lit("1"), Star(Space), End>>),
    \* iptables\s+-F
    Cat(<<Lit("iptables"), Plus(Space), Lit("-F")>>),
    \* ufw\s+(disable|reset)
    Cat(<<Lit("ufw"), Plus(Space), Alt(<<Lit("disable"), Lit("reset")>>)>>),
    \* iptables.*DROP.*INPUT
    Cat(<<Lit("iptables"), Star(Dot), Lit("DROP"), Star(Dot), Lit("INPUT")>>) >>

\* Commands that need confirmation (medium risk)
CONFIRMATION_COMMANDS == <<
    "rm", "dd", "mkfs", "fdisk", "parted",
    "userdel", "deluser", "usermod", "passwd",
    "shutdown", "reboot", "halt", "poweroff",
    "systemctl", "service",
    "iptables", "ufw", "firewall-cmd",
    "apt remove", "apt purge", "yum remove",
    "docker rm", "docker rmi" >>

\* Safe read-only commands (always allowed)
SAFE_COMMANDS == <<
    "ls", "cat", "less", "more", "head", "tail",
    "grep", "find", "locate", "which", "whereis",
    "ps", "top", "htop", "free", "df", "du",
    "netstat", "ss", "lsof", "ifconfig", "ip",
    "uptime", "whoami", "who", "w", "id",
    "date", "cal", "pwd", "echo",
    "systemctl status", "service status",
    "git status", "git log", "git diff" >>

\* re.compile of a caller-supplied pattern: the model's callers supply plain
\* words, which compile to a literal
compile(pattern) == Lit(pattern)

SafetyResult(is_safe, requires_confirmation, reason, risk_level) ==
    [is_safe |-> is_safe, requires_confirmation |-> requires_confirmation,
     reason |-> reason, risk_level |-> risk_level]

NoResult == [is_safe |-> FALSE, requires_confirmation |-> FALSE,
             reason |-> "no result", risk_level |-> "none"]

\* some pattern of the list matches somewhere in the text
any_search(patterns, text) ==
    \E k \in 1..Len(patterns) : search(patterns[k], text)

\* self.compiled_critical: compiled from the class constant CRITICAL_PATTERNS,
\* whatever self.blocked_patterns holds
compiled_critical(blocked) == CRITICAL_PATTERNS

\* self.compiled_high_risk
compiled_high_risk == HIGH_RISK_PATTERNS

\* a variant of _is_safe_command that knows exact matches only
is_safe_command_exact(cmd) ==
    \E k \in 1..Len(SAFE_COMMANDS) : cmd = SAFE_COMMANDS[k]

\* Safety._is_safe_command: exact match or starts with safe command and a space
is_safe_command(cmd) ==
    \E k \in 1..Len(SAFE_COMMANDS) :
        cmd = SAFE_COMMANDS[k] \/ startswith(cmd, SAFE_COMMANDS[k] \o " ")

\* a variant of the policy-level part that reads the built-in names only
safety_level_logic_builtin(level, conf, cmd) ==
    IF level = "high"
    THEN SafetyResult(TRUE, TRUE, "High safety mode: confirmation required", "medium")
    ELSE IF level = "medium"
            /\ \E k \in 1..Len(CONFIRMATION_COMMANDS) : contains(cmd, CONFIRMATION_COMMANDS[k])
    THEN SafetyResult(TRUE, TRUE, "Command requires confirmation", "medium")
    ELSE SafetyResult(TRUE, FALSE, "Command passed safety checks", "low")

\* the policy-level part of check_command
safety_level_logic(level, conf, cmd) ==
    IF level = "high"
    THEN SafetyResult(TRUE, TRUE, "High safety mode: confirmation required", "medium")
    ELSE IF level = "medium" /\ \E k \in 1..Len(conf) : contains(cmd, conf[k])
    THEN SafetyResult(TRUE, TRUE, "Command requires confirmation", "medium")
    ELSE SafetyResult(TRUE, FALSE, "Command passed safety checks", "low")

\* a variant of the rules that consults the safe list first
check_rules_safe_first(level, blocked, conf, cmd) ==
    IF is_safe_command(cmd)
    THEN SafetyResult(TRUE, FALSE, "Read-only safe command", "low")
    ELSE IF any_search(compiled_critical(blocked), cmd)
    THEN SafetyResult(FALSE, FALSE, "Blocked: Critical destructive pattern detected", "critical")
    ELSE IF any_search(compiled_high_risk, cmd)
    THEN SafetyResult(TRUE, TRUE, "High risk operation detected", "high")
    ELSE safety_level_logic(level, conf, cmd)

\* the rules of check_command for a stripped, non-empty command, first match wins
check_rules(level, blocked, conf, cmd) ==
    IF any_search(compiled_critical(blocked), cmd)
    THEN SafetyResult(FALSE, FALSE, "Blocked: Critical destructive pattern detected", "critical")
    ELSE IF any_search(compiled_high_risk, cmd)
    THEN SafetyResult(TRUE, TRUE, "High risk operation detected", "high")
    ELSE IF is_safe_command(cmd)
    THEN SafetyResult(TRUE, FALSE, "Read-only safe command", "low")
    ELSE safety_level_logic(level, conf, cmd)

\* a check_command without the test for the empty command
check_command_no_empty_test(level, blocked, conf, text) ==
    check_rules(level, blocked, conf, strip(text))

\* Safety.check_command of a Safety object with the given fields
check_command(level, blocked, conf, text) ==
    LET cmd == strip(text)
    IN  IF cmd = ""
        THEN SafetyResult(FALSE, FALSE, "Empty command", "low")
        ELSE check_rules(level, blocked, conf, cmd)

\* Safety.__init__: self.blocked_patterns, the built-in list extended by the
\* caller's patterns
self_blocked_patterns(blocked_ext) ==
    CRITICAL_PATTERNS \o [k \in 1..Len(blocked_ext) |-> compile(blocked_ext[k])]

\* Safety.__init__: self.confirmation_commands, the built-in list extended by
\* the caller's names
self_confirmation_commands(conf_ext) == CONFIRMATION_COMMANDS \o conf_ext

\* self.safety.check_command(text) on the Safety object of the state
classify(text) ==
    check_command(safety_level, self_blocked_patterns(blocked_patterns),
                  self_confirmation_commands(confirmation_commands), text)

Levels == {"low", "medium", "high"}

\* no call of check_file_operation or validate_ssh_command is made
NoArguments ==
    /\ path = ""
    /\ operation = "read"
    /\ allow_sudo = FALSE

\* check_file_operation: critical_paths
critical_paths ==
    <<"/", "/boot", "/dev", "/proc", "/sys", "/etc/passwd", "/etc/shadow", "/etc/sudoers">>

\* a check_file_operation that blocks the listed paths only, not what lies
\* beneath them
check_file_operation_exact(file_path, op) ==
    LET p == strip(file_path)
    IN  IF op \in {"write", "delete"}
           /\ \E k \in 1..Len(critical_paths) : p = critical_paths[k]
        THEN SafetyResult(FALSE, FALSE, "Blocked: Cannot " \o op \o
                            " critical system path: " \o p, "critical")
        ELSE IF op = "write" /\ startswith(p, "/etc/")
        THEN SafetyResult(TRUE, TRUE, "Modifying system configuration: " \o p, "high")
        ELSE SafetyResult(TRUE, FALSE, "File operation is safe", "low")

\* Safety.check_file_operation(path, operation)
check_file_operation(file_path, op) ==
    LET p == strip(file_path)
    IN  IF op \in {"write", "delete"}
           /\ \E k \in 1..Len(critical_paths) :
                 p = critical_paths[k] \/ startswith(p, critical_paths[k] \o "/")
        THEN SafetyResult(FALSE, FALSE, "Blocked: Cannot " \o op \o
                            " critical system path: " \o p, "critical")
        ELSE IF op = "write" /\ startswith(p, "/etc/")
        THEN SafetyResult(TRUE, TRUE, "Modifying system configuration: " \o p, "high")
        ELSE SafetyResult(TRUE, FALSE, "File operation is safe", "low")

\* a validate_ssh_command without the test for sudo
validate_ssh_command_no_sudo_test(text, allow) == classify(text)

\* Safety.validate_ssh_command(command, allow_sudo) on the Safety object of
\* the state
validate_ssh_command(text, allow) ==
    IF startswith(strip(text), "sudo ")
    THEN IF ~allow
         THEN SafetyResult(FALSE, FALSE, "sudo commands not allowed on this VPS", "high")
         ELSE SafetyResult(TRUE, TRUE, "sudo command requires confirmation", "high")
    ELSE classify(text)

---------------------------------------------------------------------------
(* Executor: one call of execute or test_connection (executor.py) *)

\* ExecutionResult: the fields success, retries, return_code, error_message
ExecutionResult(success, n, return_code, error_message) ==
    [success |-> success, retries |-> n, return_code |-> return_code,
     error_message |-> error_message]
\* no result: the call has not returned; or, in the remote loop, the
\* iteration ends with `continue`
NoExecResult == ExecutionResult(FALSE, 0, 0, "None")

\* the arguments of a call
Call(op, remote, retry_on_failure) ==
    [op |-> op, remote |-> remote, retry_on_failure |-> retry_on_failure]
NoCall == Call("none", FALSE, FALSE)

\* one attempt as the ExecutionEngine saw it end
Attempt(kind, code) == [kind |-> kind, code |-> code]

\* exit codes of a command that exits nonzero
NonzeroCodes == {1, 2}

\* str(e) of the exception a timed out read of the channel raises: the text
\* is the SSH library's, empty or naming the timeout
TimeoutTexts == {"", "timed out"}

\* how an attempt of _execute_local can end: <<kind, exit code, str(e)>>
LocalOutcomes ==
    {<<"exit", code, "">> : code \in {0} \cup NonzeroCodes}
      \cup {<<"timeout", -1, "">>, <<"error", -1, "No such file">>}

\* how ssh.connect can end: <<kind, str(e)>>
ConnectOutcomes ==
    {<<"connected", "">>, <<"auth_failure", "Authentication failed.">>,
     <<"ssh_error", "No existing session">>, <<"connect_error", "Connection refused">>}

\* how exec_command and the reads of a connected attempt can end
RemoteOutcomes ==
    {<<"exit", code, "">> : code \in {0} \cup NonzeroCodes}
      \cup {<<"timeout", -1, text>> : text \in TimeoutTexts}
      \cup {<<"ssh_error", -1, "Channel closed.">>, <<"error", -1, "Socket is closed">>}

\* how the connect and the test command of test_connection can end
TestOutcomes ==
    {"test", "other output", "auth_failure", "ssh_error", "connect_error", "timeout"}

\* ClineConfig.max_retries, the default
DefaultMaxRetries == 3
\* ClineConfig.timeout, the default: self.timeout in seconds
DefaultTimeout == 300

\* the state before a call of the Executor
IdleExecutor ==
    /\ xcall = NoCall
    /\ exec_pc = "idle"
    /\ retries = 0
    /\ attempts = << >>
    /\ ssh = "none"
    /\ sessions_open = 0
    /\ sessions_opened = 0
    /\ returning = NoExecResult
    /\ exec_result = NoExecResult

\* the bound of the while loop: self.max_retries if retry_on_failure else 0
loop_limit == IF xcall.retry_on_failure THEN max_retries ELSE 0

\* the retry test that forgets the budget
should_retry_unbounded(retry_on_failure, n, limit) == retry_on_failure

\* `if retry_on_failure and retries < self.max_retries`
should_retry(retry_on_failure, n, limit) == retry_on_failure /\ n < limit

\* the result of an attempt that ran to its exit code: success, a retry
\* (NoExecResult: the loop continues), or the failure
exit_result(code) ==
    IF code = 0 THEN ExecutionResult(TRUE, retries, 0, "")
    ELSE IF should_retry(xcall.retry_on_failure, retries, max_retries) THEN NoExecResult
    ELSE ExecutionResult(FALSE, retries, code,
                         "Command failed with exit code " \o ToString(code))

\* execute(command, vps, ssh_config, retry_on_failure): remote when vps and
\* ssh_config are given, else local (with or without Cline)
Execute(remote, retry_on_failure) ==
    /\ exec_pc = "idle"
    /\ xcall' = Call("execute", remote, retry_on_failure)
    /\ retries' = 0
    /\ exec_pc' = "loop"
    /\ UNCHANGED <<safetyVars, envVars, memVars, callVars, botVars, batchVars>>
    /\ UNCHANGED <<max_retries, attempts, ssh, sessions_open, sessions_opened,
                   returning, exec_result>>

\* the while test; in the remote loop an iteration starts with ssh = None
\* and creates the client
LoopTest ==
    /\ exec_pc = "loop"
    /\ IF retries <= loop_limit
       THEN IF xcall.remote
            THEN /\ ssh' = "open"
                 /\ sessions_open' = sessions_open + 1
                 /\ sessions_opened' = sessions_opened + 1
                 /\ exec_pc' = "connect"
                 /\ UNCHANGED exec_result
            ELSE /\ exec_pc' = "run"
                 /\ UNCHANGED <<ssh, sessions_open, sessions_opened, exec_result>>
       ELSE /\ exec_result' = ExecutionResult(FALSE, retries, -1, "Max retries exceeded")
            /\ exec_pc' = "returned"
            /\ UNCHANGED <<ssh, sessions_open, sessions_opened>>
    /\ UNCHANGED <<safetyVars, envVars, memVars, callVars, botVars, batchVars>>
    /\ UNCHANGED <<max_retries, xcall, retries, attempts, returning>>

\* _execute_local: one attempt (Popen, communicate) and what follows it
RunLocal(kind, code, text) ==
    /\ exec_pc = "run" /\ ~xcall.remote
    /\ <<kind, code, text>> \in LocalOutcomes
    /\ attempts' = Append(attempts, Attempt(kind, code))
    /\ LET res == IF kind = "exit" THEN exit_result(code)
                  ELSE IF kind = "timeout"
                  THEN ExecutionResult(FALSE, retries, -1,
                         "Command timed out after " \o ToString(DefaultTimeout) \o "s")
                  ELSE ExecutionResult(FALSE, retries, -1, "Execution error: " \o text)
       IN  IF res = NoExecResult
           THEN /\ retries' = retries + 1
                /\ exec_pc' = "loop"
                /\ UNCHANGED exec_result
           ELSE /\ exec_result' = res
                /\ exec_pc' = "returned"
                /\ UNCHANGED retries
    /\ UNCHANGED <<safetyVars, envVars, memVars, callVars, botVars, batchVars>>
    /\ UNCHANGED <<max_retries, xcall, ssh, sessions_open, sessions_opened, returning>>

\* _execute_remote: ssh.connect
Connect(kind, text) ==
    /\ exec_pc = "connect" /\ xcall.op = "execute"
    /\ <<kind, text>> \in ConnectOutcomes
    /\ IF kind = "connected"
       THEN /\ exec_pc' = "run"
            /\ UNCHANGED <<attempts, returning>>
       ELSE /\ attempts' = Append(attempts, Attempt(kind, -1))
            /\ returning' =
                 IF kind = "connect_error"
                 THEN ExecutionResult(FALSE, retries, -1, "Execution error: " \o text)
                 ELSE ExecutionResult(FALSE, retries, -1, "SSH error: " \o text)
            /\ exec_pc' = "finally"
    /\ UNCHANGED <<safetyVars, envVars, memVars, callVars, botVars, batchVars>>
    /\ UNCHANGED <<max_retries, xcall, retries, ssh, sessions_open, sessions_opened,
                   exec_result>>

\* _execute_remote: exec_command, reading the output and the exit status,
\* and what follows: a return, or retries += 1, sleep and continue; either
\* way the finally clause is next
RunRemote(kind, code, text) ==
    /\ exec_pc = "run" /\ xcall.remote
    /\ <<kind, code, text>> \in RemoteOutcomes
    /\ attempts' = Append(attempts, Attempt(kind, code))
    /\ LET res == IF kind = "exit" THEN exit_result(code)
                  ELSE IF kind = "ssh_error"
                  THEN ExecutionResult(FALSE, retries, -1, "SSH error: " \o text)
                  ELSE ExecutionResult(FALSE, retries, -1, "Execution error: " \o text)
       IN  /\ returning' = res
           /\ retries' = IF res = NoExecResult THEN retries + 1 ELSE retries
    /\ exec_pc' = "finally"
    /\ UNCHANGED <<safetyVars, envVars, memVars, callVars, botVars, batchVars>>
    /\ UNCHANGED <<max_retries, xcall, ssh, sessions_open, sessions_opened, exec_result>>

\* a finally clause that closes the session only when the function returns
Finally_keeps_session_on_retry ==
    /\ exec_pc = "finally" /\ xcall.op = "execute"
    /\ IF returning = NoExecResult
       THEN /\ exec_pc' = "loop"
            /\ UNCHANGED <<ssh, sessions_open, exec_result>>
       ELSE /\ ssh' = "none"
            /\ sessions_open' = IF ssh = "open" THEN sessions_open - 1 ELSE sessions_open
            /\ exec_result' = returning
            /\ exec_pc' = "returned"
    /\ returning' = NoExecResult
    /\ UNCHANGED <<safetyVars, envVars, memVars, callVars, botVars, batchVars>>
    /\ UNCHANGED <<max_retries, xcall, retries, attempts, sessions_opened>>

\* _execute_remote: `finally: if ssh: ssh.close()`, then the return or the
\* next iteration
Finally ==
    /\ exec_pc = "finally" /\ xcall.op = "execute"
    /\ ssh' = "none"
    /\ sessions_open' = IF ssh = "open" THEN sessions_open - 1 ELSE sessions_open
    /\ IF returning = NoExecResult
       THEN /\ exec_pc' = "loop"
            /\ UNCHANGED exec_result
       ELSE /\ exec_result' = returning
            /\ exec_pc' = "returned"
    /\ returning' = NoExecResult
    /\ UNCHANGED <<safetyVars, envVars, memVars, callVars, botVars, batchVars>>
    /\ UNCHANGED <<max_retries, xcall, retries, attempts, sessions_opened>>

\* test_connection: the (success, message) it returns for each way the
\* connect and the test command can end
test_connection_result(kind) ==
    IF kind = "test" THEN ExecutionResult(TRUE, 0, 0, "Connected")
    ELSE IF kind = "other output"
    THEN ExecutionResult(FALSE, 0, 0, "Connection established but command test failed")
    ELSE IF kind = "auth_failure"
    THEN ExecutionResult(FALSE, 0, -1, "Authentication failed - check SSH key/password")
    ELSE IF kind = "ssh_error"
    THEN ExecutionResult(FALSE, 0, -1, "SSH error: ")
    ELSE ExecutionResult(FALSE, 0, -1, "Connection failed: ")

\* test_connection: the client is created
TestConnection ==
    /\ exec_pc = "idle"
    /\ xcall' = Call("test_connection", TRUE, FALSE)
    /\ ssh' = "open"
    /\ sessions_open' = sessions_open + 1
    /\ sessions_opened' = sessions_opened + 1
    /\ exec_pc' = "connect"
    /\ UNCHANGED <<safetyVars, envVars, memVars, callVars, botVars, batchVars>>
    /\ UNCHANGED <<max_retries, retries, attempts, returning, exec_result>>

\* test_connection: ssh.connect and the test command; the result is
\* (success, message)
TestConnect(kind) ==
    /\ exec_pc = "connect" /\ xcall.op = "test_connection"
    /\ kind \in TestOutcomes
    /\ attempts' = Append(attempts, Attempt(kind, -1))
    /\ returning' = test_connection_result(kind)
    /\ exec_pc' = "finally"
    /\ UNCHANGED <<safetyVars, envVars, memVars, callVars, botVars, batchVars>>
    /\ UNCHANGED <<max_retries, xcall, retries, ssh, sessions_open, sessions_opened,
                   exec_result>>

\* test_connection: `finally: if ssh: ssh.close()`, then the return
TestFinally ==
    /\ exec_pc = "finally" /\ xcall.op = "test_connection"
    /\ ssh' = "none"
    /\ sessions_open' = IF ssh = "open" THEN sessions_open - 1 ELSE sessions_open
    /\ exec_result' = returning
    /\ returning' = NoExecResult
    /\ exec_pc' = "returned"
    /\ UNCHANGED <<safetyVars, envVars, memVars, callVars, botVars, batchVars>>
    /\ UNCHANGED <<max_retries, xcall, retries, attempts, sessions_opened>>

\* the state before a call of execute_batch
IdleBatch ==
    /\ batch = << >>
    /\ batch_remote = FALSE
    /\ stop_on_error = TRUE
    /\ batch_results = << >>
    /\ batch_pc = "idle"

\* what the claims read of an entry of results: the command it belongs to
\* and the success field of its ExecutionResult
BatchResult(cmd, res) == [cmd |-> cmd, success |-> res.success]

\* execute_batch(commands, vps, ssh_config, stop_on_error): results = []
ExecuteBatch(commands, remote, stop) ==
    /\ batch_pc = "idle" /\ exec_pc = "idle"
    /\ batch' = commands
    /\ batch_remote' = remote
    /\ stop_on_error' = stop
    /\ batch_results' = << >>
    /\ batch_pc' = IF commands = << >> THEN "returned" ELSE "loop"
    /\ UNCHANGED <<safetyVars, envVars, memVars, callVars, botVars, execVars>>

\* execute_batch: result = self.execute(command, vps, ssh_config) for the
\* next command of the list; retry_on_failure has its default, True
BatchExecute ==
    /\ batch_pc = "loop"
    /\ Len(batch_results) < Len(batch)
    /\ Execute(batch_remote, TRUE)

\* the loop of execute_batch without the break
after_result_no_break(success) ==
    IF Len(batch_results) + 1 = Len(batch) THEN "returned" ELSE "loop"

\* the loop of execute_batch that breaks on every failure
after_result_always_break(success) ==
    IF ~success THEN "returned"
    ELSE IF Len(batch_results) + 1 = Len(batch) THEN "returned" ELSE "loop"

\* execute_batch: `if not result.success and stop_on_error: break`, else the
\* next command, or `return results` after the last
after_result(success) ==
    IF ~success /\ stop_on_error THEN "returned"
    ELSE IF Len(batch_results) + 1 = Len(batch) THEN "returned" ELSE "loop"

\* execute_batch: execute has returned; results.append(result)
BatchCollect ==
    /\ batch_pc = "loop" /\ exec_pc = "returned"
    /\ batch_results' =
         Append(batch_results, BatchResult(batch[Len(batch_results) + 1], exec_result))
    /\ batch_pc' = after_result(exec_result.success)
    /\ xcall' = NoCall
    /\ exec_pc' = "idle"
    /\ retries' = 0
    /\ attempts' = << >>
    /\ sessions_opened' = 0
    /\ exec_result' = NoExecResult
    /\ UNCHANGED <<safetyVars, envVars, memVars, callVars, botVars, batch, batch_remote, stop_on_error,
                   max_retries, ssh, sessions_open, returning>>

---------------------------------------------------------------------------
(* ClideBot: the state of the orchestrator (bot.py) *)

Users == {"u1", "u2"}

\* config.vps_list: the names config.get_vps knows
VpsNames == {"vps1"}
NoVps == "none"

\* a dict with no key
EmptyMap == [x \in {} |-> x]
\* d[key] = value
Put(d, key, value) == [x \in DOMAIN d \cup {key} |-> IF x = key THEN value ELSE d[x]]
\* d.pop(key)
Pop(d, key) == [x \in DOMAIN d \ {key} |-> d[x]]

\* what a handler passes to context.send
Note(cmd, reason) == [cmd |-> cmd, reason |-> reason]
Reply(user, kind, notes) == [user |-> user, kind |-> kind, notes |-> notes]
NoReply == Reply("", "none", << >>)

\* brain.process_message: command_data['commands'], or NoCommands when the
\* reply holds no command structure or the interpreter was not asked
NoCommands == <<"no commands">>

\* the input of a handler step: a delivered message with what the
\* interpreter made of it, or the resumption of a suspended handler
Handled(op, user, text, commands) ==
    [op |-> op, user |-> user, text |-> text, commands |-> commands]
NoneHandled == Handled("none", "", "", NoCommands)

\* a pending confirmation
Entry(commands, context, timestamp) ==
    [commands |-> commands, context |-> context, timestamp |-> timestamp]

\* the locals of _handle_confirmation while it is suspended in
\* `await context.send("Executing...")`
Frame(user, entry) ==
    [user |-> user, commands |-> entry.commands, context |-> entry.context,
     origin |-> entry.timestamp]

\* an entry a response of the user consumed
Consumed(user, entry) == [user |-> user, timestamp |-> entry.timestamp]

\* the state after ClideBot.__init__
InitBot ==
    /\ pending_confirmations = EmptyMap
    /\ current_vps = EmptyMap
    /\ executing = {}
    /\ handled = NoneHandled
    /\ sent = NoReply
    /\ results = << >>
    /\ clock = 0
    /\ received = 0
    /\ confirmed = {}
    /\ cancelled = {}

\* signal.admin_only has its default, True, every user is one of
\* signal.allowed_numbers, and the interpreter sets no confirmation hint
OpenAccess ==
    /\ admin_only = TRUE
    /\ allowed_numbers = Users
    /\ requires_confirmation_hint = FALSE

\* no call of _execute_commands is inside executor.execute
NotRunning ==
    [user |-> "", commands |-> << >>, context |-> [vps |-> NoVps], origin |-> 0]

\* the table commands is empty
EmptyMemory ==
    /\ history = << >>
    /\ handed = << >>
    /\ running = NotRunning

---------------------------------------------------------------------------
(* The collaborators of the orchestrator, as the sets they answer from *)

\* the commands the interpreter proposes: one no rule matches (the policy
\* level decides), a high-risk one and a critical one
CommandPool == {"make", "reboot", "mkfs"}

RECURSIVE BatchesUpTo(_)
BatchesUpTo(n) ==
    IF n = 0 THEN {<< >>}
    ELSE LET shorter == BatchesUpTo(n - 1)
         IN  shorter \cup {Append(b, c) : b \in shorter, c \in CommandPool}

Batches == BatchesUpTo(MaxBatch)

\* brain.suggest_fix: a non-empty command text, or None
NoFix == ""
Fixes == {"make", "mkfs", NoFix}

\* the message texts users send: an affirmative and a negative response (as
\* typed, before lower() and strip()) and two special commands; each of them
\* is an ordinary request when it reaches the interpreter
MessageTexts == {"Proceed ", "ABORT", "help", "switch vps1"}

---------------------------------------------------------------------------
(* ClideBot: the handlers (bot.py) *)

\* _handle_confirmation: response.lower().strip()
response_lower(response) == strip(lower(response))
Affirmative(response) == response_lower(response) \in {"yes", "y", "confirm", "proceed"}
Negative(response) == response_lower(response) \in {"no", "n", "cancel", "abort"}

\* _handle_message: the special commands
IsHelp(text) == lower(text) \in {"help", "/help"}
IsStatus(text) == lower(text) \in {"status", "/status"}
IsSwitch(text) == startswith(lower(text), "switch ")

\* _build_context
build_context(user) ==
    [vps |-> IF user \in DOMAIN current_vps THEN current_vps[user] ELSE NoVps]

\* the verdicts of the interpreter's commands under the Safety object of
\* the state (which the orchestrator builds without extensions), computed
\* once per policy level
PoolVerdicts ==
    [level \in Levels |->
        [cmd \in CommandPool |->
            check_command(level, self_blocked_patterns(<< >>),
                          self_confirmation_commands(<< >>), cmd)]]

\* self.safety.check_command(cmd) as _process_command calls it
safety_result(cmd) ==
    IF cmd \in CommandPool /\ blocked_patterns = << >> /\ confirmation_commands = << >>
    THEN PoolVerdicts[safety_level][cmd]
    ELSE classify(cmd)

\* _process_command: the safety loop over the batch
all_safe(commands) ==
    \A k \in 1..Len(commands) : safety_result(commands[k]).is_safe
needs_confirmation(commands) ==
    \E k \in 1..Len(commands) :
        safety_result(commands[k]).is_safe /\ safety_result(commands[k]).requires_confirmation

RECURSIVE safety_messages(_)
\* _process_command: one "Blocked" line per unsafe command, in batch order
safety_messages(commands) ==
    IF commands = << >> THEN << >>
    ELSE LET verdict == safety_result(Head(commands))
             rest == safety_messages(Tail(commands))
         IN  IF verdict.is_safe THEN rest
             ELSE <<Note(Head(commands), verdict.reason)>> \o rest

\* a gate that serves every sender
authorized_everyone(user) == TRUE

\* _handle_message: in admin-only mode a sender that is not one of
\* allowed_numbers is not served
authorized(user) == ~admin_only \/ user \in allowed_numbers

\* a message of the user enters _handle_message and passes the gate
Deliver(user, text, commands) ==
    /\ received < MaxMsgs
    /\ authorized(user)
    /\ received' = received + 1
    /\ handled' = Handled("message", user, text, commands)

\* a loop that goes on after a failed command
Ran_whole_batch(user, commands, context, origin, fail) ==
    [k \in 1..Len(commands) |->
        [user |-> user, cmd |-> commands[k], vps |-> context.vps,
         origin |-> origin, success |-> (k # fail)]]

\* the calls of executor.execute that _execute_commands makes when command
\* number fail is the first to fail (0: none fails)
Ran(user, commands, context, origin, fail) ==
    [k \in 1..(IF fail = 0 THEN Len(commands) ELSE fail) |->
        [user |-> user, cmd |-> commands[k], vps |-> context.vps,
         origin |-> origin, success |-> (k # fail)]]

\* _execute_commands that executes a suggested fix at once
execute_commands_runs_fix(user, commands, context, origin) ==
    \E fail \in 0..Len(commands), fix \in Fixes :
        /\ fail = 0 => fix = NoFix
        /\ results' =
             IF fail # 0 /\ fix # NoFix
             THEN Ran(user, commands, context, origin, fail)
                    \o Ran(user, <<fix>>, context, origin, 0)
             ELSE Ran(user, commands, context, origin, fail)
        /\ UNCHANGED <<pending_confirmations, clock>>
        /\ sent' = IF fail = 0 THEN Reply(user, "success", << >>)
                   ELSE Reply(user, "failed", <<Note(commands[fail], fix)>>)

\* _execute_commands: the loop runs without an await; the ExecutionEngine
\* decides which command fails first and the interpreter which fix it
\* suggests; a suggested fix is stored as the user's pending confirmation
execute_commands(user, commands, context, origin) ==
    \E fail \in 0..Len(commands), fix \in Fixes :
        /\ fail = 0 => fix = NoFix
        /\ results' = Ran(user, commands, context, origin, fail)
        /\ IF fail # 0 /\ fix # NoFix
           THEN /\ pending_confirmations' =
                     Put(pending_confirmations, user, Entry(<<fix>>, context, clock + 1))
                /\ clock' = clock + 1
           ELSE UNCHANGED <<pending_confirmations, clock>>
        /\ sent' = IF fail = 0 THEN Reply(user, "success", << >>)
                   ELSE Reply(user, "failed", <<Note(commands[fail], fix)>>)

\* Confirm that reads the entry and leaves it in the store
Confirm_without_pop(user, text) ==
    /\ Deliver(user, text, NoCommands)
    /\ user \in DOMAIN pending_confirmations
    /\ Affirmative(text)
    /\ executing' = executing \cup {Frame(user, pending_confirmations[user])}
    /\ confirmed' = confirmed \cup {Consumed(user, pending_confirmations[user])}
    /\ sent' = Reply(user, "executing", << >>)
    /\ results' = << >>
    /\ UNCHANGED <<safetyVars, envVars, memVars, callVars, execVars, batchVars, confirm_all, pending_confirmations,
                   current_vps, clock, cancelled>>

\* _handle_message -> _handle_confirmation, affirmative: pop the entry and
\* suspend in the send of "Executing..."
Confirm(user, text) ==
    /\ Deliver(user, text, NoCommands)
    /\ user \in DOMAIN pending_confirmations
    /\ Affirmative(text)
    /\ pending_confirmations' = Pop(pending_confirmations, user)
    /\ executing' = executing \cup {Frame(user, pending_confirmations[user])}
    /\ confirmed' = confirmed \cup {Consumed(user, pending_confirmations[user])}
    /\ sent' = Reply(user, "executing", << >>)
    /\ results' = << >>
    /\ UNCHANGED <<safetyVars, envVars, memVars, callVars, execVars, batchVars, confirm_all, current_vps, clock, cancelled>>

\* _handle_confirmation resumed after "Executing...": _execute_commands
ExecuteConfirmed(frame) ==
    /\ frame \in executing
    /\ executing' = executing \ {frame}
    /\ handled' = Handled("resume", frame.user, "", NoCommands)
    /\ execute_commands(frame.user, frame.commands, frame.context, frame.origin)
    /\ UNCHANGED <<safetyVars, envVars, memVars, callVars, execVars, batchVars, confirm_all, current_vps, received,
                   confirmed, cancelled>>

\* Cancel that leaves the entry in the store
Cancel_without_pop(user, text) ==
    /\ Deliver(user, text, NoCommands)
    /\ user \in DOMAIN pending_confirmations
    /\ ~Affirmative(text) /\ Negative(text)
    /\ cancelled' = cancelled \cup {Consumed(user, pending_confirmations[user])}
    /\ sent' = Reply(user, "cancelled", << >>)
    /\ results' = << >>
    /\ UNCHANGED <<safetyVars, envVars, memVars, callVars, execVars, batchVars, confirm_all, pending_confirmations,
                   current_vps, executing, clock, confirmed>>

\* _handle_message -> _handle_confirmation, negative: pop and discard
Cancel(user, text) ==
    /\ Deliver(user, text, NoCommands)
    /\ user \in DOMAIN pending_confirmations
    /\ ~Affirmative(text) /\ Negative(text)
    /\ pending_confirmations' = Pop(pending_confirmations, user)
    /\ cancelled' = cancelled \cup {Consumed(user, pending_confirmations[user])}
    /\ sent' = Reply(user, "cancelled", << >>)
    /\ results' = << >>
    /\ UNCHANGED <<safetyVars, envVars, memVars, callVars, execVars, batchVars, confirm_all, current_vps, executing, clock,
                   confirmed>>

\* Reprompt that treats an unknown response as a cancellation
Reprompt_discards(user, text) ==
    /\ Deliver(user, text, NoCommands)
    /\ user \in DOMAIN pending_confirmations
    /\ ~Affirmative(text) /\ ~Negative(text)
    /\ pending_confirmations' = Pop(pending_confirmations, user)
    /\ sent' = Reply(user, "reprompt", << >>)
    /\ results' = << >>
    /\ UNCHANGED <<safetyVars, envVars, memVars, callVars, execVars, batchVars, confirm_all, current_vps, executing, clock,
                   confirmed, cancelled>>

\* _handle_message -> _handle_confirmation, anything else: ask again
Reprompt(user, text) ==
    /\ Deliver(user, text, NoCommands)
    /\ user \in DOMAIN pending_confirmations
    /\ ~Affirmative(text) /\ ~Negative(text)
    /\ sent' = Reply(user, "reprompt", << >>)
    /\ results' = << >>
    /\ UNCHANGED <<safetyVars, envVars, memVars, callVars, execVars, batchVars, confirm_all, pending_confirmations,
                   current_vps, executing, clock, confirmed, cancelled>>

\* a _handle_message that tests for help and status before the pending entry
HelpOrStatus_while_pending(user, text) ==
    /\ Deliver(user, text, NoCommands)
    /\ IsHelp(text) \/ IsStatus(text)
    /\ sent' = Reply(user, IF IsHelp(text) THEN "help" ELSE "status", << >>)
    /\ results' = << >>
    /\ UNCHANGED <<safetyVars, envVars, memVars, callVars, execVars, batchVars, confirm_all, pending_confirmations,
                   current_vps, executing, clock, confirmed, cancelled>>

\* _handle_message -> _send_help / _send_status
HelpOrStatus(user, text) ==
    /\ Deliver(user, text, NoCommands)
    /\ user \notin DOMAIN pending_confirmations
    /\ IsHelp(text) \/ IsStatus(text)
    /\ sent' = Reply(user, IF IsHelp(text) THEN "help" ELSE "status", << >>)
    /\ results' = << >>
    /\ UNCHANGED <<safetyVars, envVars, memVars, callVars, execVars, batchVars, confirm_all, pending_confirmations,
                   current_vps, executing, clock, confirmed, cancelled>>

\* _switch_vps: parts[1].strip() of message.split(maxsplit=1), "" when the
\* message has one part only
requested_vps(text) == strip(SubSeq(text, Len("switch ") + 1, Len(text)))

\* _handle_message -> _switch_vps; executor.test_connection answers connects
SwitchVps(user, text) ==
    /\ Deliver(user, text, NoCommands)
    /\ user \notin DOMAIN pending_confirmations
    /\ ~IsHelp(text) /\ ~IsStatus(text) /\ IsSwitch(text)
    /\ LET vps_name == requested_vps(text)
       IN  \E kind \in TestOutcomes, connects \in BOOLEAN :
             /\ connects = (/\ vps_name # "" /\ vps_name \in VpsNames
                            /\ test_connection_result(kind).success)
             /\ current_vps' =
                  IF connects THEN Put(current_vps, user, vps_name) ELSE current_vps
             /\ sent' = Reply(user,
                              IF vps_name = "" THEN "usage"
                              ELSE IF vps_name \notin VpsNames THEN "vps not found"
                              ELSE IF connects THEN "switched" ELSE "cannot connect",
                              << >>)
    /\ results' = << >>
    /\ UNCHANGED <<safetyVars, envVars, memVars, callVars, execVars, batchVars, confirm_all, pending_confirmations,
                   executing, clock, confirmed, cancelled>>

\* a _process_command that takes the message itself for a command when the
\* interpreter returns none
Chat_stores_message(user, text) ==
    /\ Deliver(user, text, NoCommands)
    /\ user \notin DOMAIN pending_confirmations
    /\ ~IsHelp(text) /\ ~IsStatus(text) /\ ~IsSwitch(text)
    /\ pending_confirmations' =
         Put(pending_confirmations, user, Entry(<<text>>, build_context(user), clock + 1))
    /\ clock' = clock + 1
    /\ sent' = Reply(user, "chat", << >>)
    /\ results' = << >>
    /\ UNCHANGED <<safetyVars, envVars, memVars, callVars, execVars, batchVars, confirm_all, current_vps,
                   executing, confirmed, cancelled>>

\* _handle_message -> _process_command, the interpreter returns no commands:
\* its text is sent
Chat(user, text) ==
    /\ Deliver(user, text, NoCommands)
    /\ user \notin DOMAIN pending_confirmations
    /\ ~IsHelp(text) /\ ~IsStatus(text) /\ ~IsSwitch(text)
    /\ sent' = Reply(user, "chat", << >>)
    /\ results' = << >>
    /\ UNCHANGED <<safetyVars, envVars, memVars, callVars, execVars, batchVars, confirm_all, pending_confirmations,
                   current_vps, executing, clock, confirmed, cancelled>>

\* _process_command: some command is blocked; report every blocked command
reject_batch(user, commands) ==
    /\ sent' = Reply(user, "blocked", safety_messages(commands))
    /\ results' = << >>
    /\ UNCHANGED <<pending_confirmations, clock>>

\* _process_command: store the batch as the user's pending confirmation
store_batch(user, commands) ==
    /\ pending_confirmations' =
         Put(pending_confirmations, user,
             Entry(commands, build_context(user), clock + 1))
    /\ clock' = clock + 1
    /\ sent' = Reply(user, "preview", << >>)
    /\ results' = << >>

\* process_batch without the safety gate
process_batch_no_gate(user, commands) ==
    IF needs_confirmation(commands) \/ confirm_all
    THEN store_batch(user, commands)
    ELSE execute_commands(user, commands, build_context(user), 0)

\* process_batch without the confirmation branch
process_batch_no_confirm(user, commands) ==
    IF ~all_safe(commands)
    THEN reject_batch(user, commands)
    ELSE execute_commands(user, commands, build_context(user), 0)

\* process_batch that also asks for confirmation when the interpreter's
\* hint says so
process_batch_trusts_hint(user, commands) ==
    IF ~all_safe(commands)
    THEN reject_batch(user, commands)
    ELSE IF needs_confirmation(commands) \/ confirm_all \/ requires_confirmation_hint
    THEN store_batch(user, commands)
    ELSE execute_commands(user, commands, build_context(user), 0)

\* _process_command on the batch the interpreter returned: reject, ask for
\* confirmation, or execute
process_batch(user, commands) ==
    IF ~all_safe(commands)
    THEN reject_batch(user, commands)
    ELSE IF needs_confirmation(commands) \/ confirm_all
    THEN store_batch(user, commands)
    ELSE execute_commands(user, commands, build_context(user), 0)

\* brain._format_command_response: the text for the user lists the commands
\* and ends with the confirmation warning when the hint is set
format_command_response(command_data) ==
    [commands |-> command_data.commands,
     warning |-> command_data.requires_confirmation]

\* brain.process_message for a reply that holds a command structure: the
\* pair (user_response, command_data)
process_message(commands, hint) ==
    LET command_data == [commands |-> commands, requires_confirmation |-> hint]
    IN  [response_text |-> format_command_response(command_data),
         command_data |-> command_data]

\* _handle_message -> _process_command, the interpreter returns a batch;
\* response_text is not used on this path
ProcessCommand(user, text) ==
    /\ user \notin DOMAIN pending_confirmations
    /\ ~IsHelp(text) /\ ~IsStatus(text) /\ ~IsSwitch(text)
    /\ \E commands \in Batches :
         LET answer == process_message(commands, requires_confirmation_hint)
         IN  /\ Deliver(user, text, answer.command_data.commands)
             /\ process_batch(user, answer.command_data.commands)
    /\ UNCHANGED <<safetyVars, envVars, memVars, callVars, execVars, batchVars, confirm_all, current_vps, executing,
                   confirmed, cancelled>>

\* _handle_message, admin-only mode: the sender is not one of
\* allowed_numbers; a warning is logged and the handler returns
Unauthorized(user, text) ==
    /\ received < MaxMsgs
    /\ ~authorized(user)
    /\ received' = received + 1
    /\ handled' = Handled("message", user, text, NoCommands)
    /\ sent' = NoReply
    /\ results' = << >>
    /\ UNCHANGED <<safetyVars, envVars, memVars, callVars, execVars, batchVars, confirm_all,
                   pending_confirmations, current_vps, executing, clock, confirmed,
                   cancelled>>

\* the orchestrator under the default policy level (SafetyConfig.safety_level
\* of config.py), with and without confirm_all
Init ==
    /\ safety_level = "medium"
    /\ blocked_patterns = << >>
    /\ confirmation_commands = << >>
    /\ command = ""
    /\ result = NoResult
    /\ NoArguments
    /\ confirm_all \in BOOLEAN
    /\ InitBot
    /\ max_retries = DefaultMaxRetries
    /\ IdleExecutor
    /\ IdleBatch
    /\ OpenAccess
    /\ EmptyMemory

Next ==
    \/ \E user \in Users, text \in MessageTexts : Confirm(user, text)
    \/ \E frame \in executing : ExecuteConfirmed(frame)
    \/ \E user \in Users, text \in MessageTexts : Cancel(user, text)
    \/ \E user \in Users, text \in MessageTexts : Reprompt(user, text)
    \/ \E user \in Users, text \in MessageTexts : HelpOrStatus(user, text)
    \/ \E user \in Users, text \in MessageTexts : SwitchVps(user, text)
    \/ \E user \in Users, text \in MessageTexts : Chat(user, text)
    \/ \E user \in Users, text \in MessageTexts : ProcessCommand(user, text)

Spec == Init /\ [][Next]_vars

---------------------------------------------------------------------------
(* Claims about the orchestrator, checked under Spec *)

\* the latest step handled a message for which the interpreter returned a
\* batch of commands
BatchHandled == handled.op = "message" /\ handled.commands # NoCommands

\* C1: in every reachable state, no command that the classifier blocks
\* (is_safe=false) has been handed to the ExecutionEngine, whether the batch
\* ran directly, after an affirmative response, or is a confirmed fix.
C1_BlockedNeverExecuted ==
    \A k \in 1..Len(results) : safety_result(results[k].cmd).is_safe

\* C2: when the batch handled for an idle user holds a command with
\* is_safe=false, no command is executed, no pending confirmation is stored
\* for the user (the user stays idle), and the reply reports every blocked
\* command with the reason of its verdict.
C2_AllOrNothingGate ==
    (BatchHandled /\ ~all_safe(handled.commands)) =>
        /\ results = << >>
        /\ handled.user \notin DOMAIN pending_confirmations
        /\ sent.user = handled.user /\ sent.kind = "blocked"
        /\ \A k \in 1..Len(handled.commands) :
             LET verdict == safety_result(handled.commands[k])
             IN  ~verdict.is_safe =>
                   \E j \in 1..Len(sent.notes) :
                       sent.notes[j] = Note(handled.commands[k], verdict.reason)

\* C2 witness: a batch whose first command is safe and whose second is
\* blocked has been rejected
C2_Witness ==
    /\ BatchHandled /\ handled.commands = <<"make", "mkfs">>
    /\ sent.kind = "blocked" /\ results = << >>

\* a step that handles a batch without a blocked command, of which a verdict
\* requires confirmation or with confirm_all set, stores exactly that batch
\* with the user's context under a fresh timestamp and executes nothing
C3_StoreStep ==
    \A user \in Users :
        (/\ received' = received + 1
         /\ handled'.user = user /\ handled'.commands # NoCommands
         /\ all_safe(handled'.commands)
         /\ needs_confirmation(handled'.commands) \/ confirm_all)
            => /\ user \in DOMAIN pending_confirmations'
               /\ pending_confirmations'[user].commands = handled'.commands
               /\ pending_confirmations'[user].context = build_context(user)
               /\ pending_confirmations'[user].timestamp > clock
               /\ results' = << >>
               /\ executing' = executing

\* what runs without a confirmation needed none; what runs from a stored
\* entry runs after an affirmative response of that user consumed the entry;
\* an entry still pending has not run and is not about to
C3_NothingRunsUnconfirmed ==
    /\ \A k \in 1..Len(results) :
         IF results[k].origin = 0
         THEN ~confirm_all /\ ~safety_result(results[k].cmd).requires_confirmation
         ELSE [user |-> results[k].user, timestamp |-> results[k].origin] \in confirmed
    /\ \A frame \in executing :
         [user |-> frame.user, timestamp |-> frame.origin] \in confirmed
    /\ \A user \in DOMAIN pending_confirmations :
         LET ts == pending_confirmations[user].timestamp
         IN  /\ \A c \in confirmed : c.timestamp # ts
             /\ \A frame \in executing : frame.origin # ts
             /\ \A k \in 1..Len(results) : results[k].origin # ts

\* C3: a batch without a blocked command, of which some verdict requires
\* confirmation or with confirm_all set, is stored as the user's pending
\* confirmation, holding exactly that batch, and none of its commands is
\* executed before an affirmative response of that user has been handled.
C3_StoredUntilConfirmed ==
    [](C3_NothingRunsUnconfirmed) /\ [][C3_StoreStep]_vars

\* C3 witness: a stored batch with a high-risk command has run after the
\* user's affirmative response
C3_Witness ==
    /\ handled.op = "resume"
    /\ Len(results) = 2 /\ results[1].cmd = "make" /\ results[2].cmd = "reboot"
    /\ [user |-> handled.user, timestamp |-> results[1].origin] \in confirmed

\* an affirmative response of a user with a pending entry removes the entry
\* and hands its commands and context to the execution that follows
C9_ConfirmStep ==
    \A user \in DOMAIN pending_confirmations :
        (/\ received' = received + 1
         /\ handled'.user = user
         /\ Affirmative(handled'.text))
            => /\ user \notin DOMAIN pending_confirmations'
               /\ Frame(user, pending_confirmations[user]) \in executing'
               /\ results' = << >>

\* the execution of a confirmed entry hands the stored commands to the
\* ExecutionEngine in the stored order with the stored context, stopping after
\* the first that fails; when all succeed the user has no pending entry
C9_ExecuteStep ==
    \A frame \in executing :
        frame \notin executing' =>
            /\ Len(results') <= Len(frame.commands)
            /\ \A k \in 1..Len(results') :
                 /\ results'[k].user = frame.user
                 /\ results'[k].cmd = frame.commands[k]
                 /\ results'[k].vps = frame.context.vps
                 /\ k < Len(results') => results'[k].success
            /\ \/ Len(results') = Len(frame.commands)
               \/ Len(results') >= 1 /\ ~results'[Len(results')].success
            /\ (/\ Len(results') = Len(frame.commands)
                /\ \A k \in 1..Len(results') : results'[k].success)
                   => frame.user \notin DOMAIN pending_confirmations'

\* C9: an affirmative response (yes, y, confirm, proceed after strip and
\* lower) of a user with a pending entry removes the entry and executes the
\* commands stored in it, in the stored order, against the stored context;
\* when all of them succeed the user has no pending entry afterwards.
C9_ConfirmExecutesStored ==
    [][C9_ConfirmStep /\ C9_ExecuteStep]_vars

\* a negative response of a user with a pending entry removes the entry,
\* executes nothing and reports the cancellation
C10_CancelStep ==
    \A user \in DOMAIN pending_confirmations :
        (/\ received' = received + 1
         /\ handled'.user = user
         /\ Negative(handled'.text))
            => /\ user \notin DOMAIN pending_confirmations'
               /\ results' = << >>
               /\ executing' = executing
               /\ sent' = Reply(user, "cancelled", << >>)
               /\ Consumed(user, pending_confirmations[user]) \in cancelled'

\* a cancelled entry is neither pending, nor about to run, nor run
C10_CancelledNeverRuns ==
    \A c \in cancelled :
        /\ \A user \in DOMAIN pending_confirmations :
             pending_confirmations[user].timestamp # c.timestamp
        /\ \A frame \in executing : frame.origin # c.timestamp
        /\ \A k \in 1..Len(results) : results[k].origin # c.timestamp

\* C10: a negative response (no, n, cancel, abort after strip and lower) of a
\* user with a pending entry removes the entry, executes none of its
\* commands, reports the cancellation and leaves the user without a pending
\* entry; the discarded entry is never executed later.
C10_CancelDiscards ==
    [](C10_CancelledNeverRuns) /\ [][C10_CancelStep]_vars

\* C10 witness: the latest step cancelled a pending entry on a negative
\* response and the user is idle
C10_Witness ==
    /\ handled.op = "message" /\ Negative(handled.text)
    /\ sent.kind = "cancelled"
    /\ Consumed(handled.user, [timestamp |-> clock]) \in cancelled
    /\ handled.user \notin DOMAIN pending_confirmations

\* a response that is neither affirmative nor negative, of a user with a
\* pending entry, leaves the entry as it is, executes nothing, starts no
\* execution and sends the re-prompt
C11_RepromptStep ==
    \A user \in DOMAIN pending_confirmations :
        (/\ received' = received + 1
         /\ handled'.user = user
         /\ ~Affirmative(handled'.text) /\ ~Negative(handled'.text))
            => /\ user \in DOMAIN pending_confirmations'
               /\ pending_confirmations'[user] = pending_confirmations[user]
               /\ results' = << >>
               /\ executing' = executing
               /\ current_vps' = current_vps
               /\ sent' = Reply(user, "reprompt", << >>)

\* C11: while a user has a pending entry, a response that is neither an
\* affirmative nor a negative token leaves the entry unchanged (commands,
\* context, timestamp), executes nothing, keeps the user awaiting
\* confirmation, and emits a re-prompt.
C11_OtherResponseReprompts ==
    [][C11_RepromptStep]_vars

\* C11 witness: the latest step re-prompted a user whose entry is still
\* pending, on a response that is no token
C11_Witness ==
    /\ handled.op = "message"
    /\ ~Affirmative(handled.text) /\ ~Negative(handled.text)
    /\ sent = Reply(handled.user, "reprompt", << >>)
    /\ handled.user \in DOMAIN pending_confirmations
    /\ results = << >>

\* the store maps a user to one entry: a batch, a context and the timestamp
\* of its creation; two users never share an entry
C12_AtMostOne ==
    /\ DOMAIN pending_confirmations \subseteq Users
    /\ \A user \in DOMAIN pending_confirmations :
         /\ DOMAIN pending_confirmations[user] = {"commands", "context", "timestamp"}
         /\ pending_confirmations[user].timestamp \in 1..clock
    /\ \A u1, u2 \in DOMAIN pending_confirmations :
         pending_confirmations[u1].timestamp = pending_confirmations[u2].timestamp
            => u1 = u2

\* an affirmative or negative response of a user with a pending entry
\* consumes that entry: the user has none afterwards, and the entry is
\* recorded as confirmed or cancelled by this response
C12_ResponseStep ==
    \A user \in DOMAIN pending_confirmations :
        (/\ received' = received + 1
         /\ handled'.user = user
         /\ Affirmative(handled'.text) \/ Negative(handled'.text))
            => /\ user \notin DOMAIN pending_confirmations'
               /\ Consumed(user, pending_confirmations[user])
                    \in (confirmed' \cup cancelled') \ (confirmed \cup cancelled)
               /\ \A other \in DOMAIN pending_confirmations \ {user} :
                    /\ other \in DOMAIN pending_confirmations'
                    /\ pending_confirmations'[other] = pending_confirmations[other]

\* C12: in every reachable state each user has at most one pending
\* confirmation, and handling an affirmative or a negative response removes
\* the entry that was pending when the response arrived.
C12_OnePendingRemovedByResponse ==
    [](C12_AtMostOne) /\ [][C12_ResponseStep]_vars

\* C12 witness: an affirmative response has just removed the entry of its
\* user while another user's entry stays pending
C12_Witness ==
    /\ handled.op = "message" /\ Affirmative(handled.text)
    /\ sent.kind = "executing"
    /\ handled.user \notin DOMAIN pending_confirmations
    /\ \E frame \in executing : frame.user = handled.user
    /\ \E other \in DOMAIN pending_confirmations : other # handled.user

\* the entries whose stored batch has been handed to _execute_commands: the
\* confirmed ones whose handler is no longer suspended before the execution
C13_Executed ==
    {c.timestamp : c \in confirmed} \ {frame.origin : frame \in executing}

\* an affirmative response consumes an entry that no response consumed
\* before; what a step executes from a stored entry had not been executed
\* before; and an executed entry never becomes executable again
C13_ConsumeStep ==
    /\ \A user \in DOMAIN pending_confirmations :
         (received' = received + 1 /\ handled'.user = user
          /\ Affirmative(handled'.text))
            => /\ \A c \in confirmed \cup cancelled :
                    c.timestamp # pending_confirmations[user].timestamp
               /\ \A frame \in executing :
                    frame.origin # pending_confirmations[user].timestamp
    /\ \A k \in 1..Len(results') :
         results'[k].origin # 0 =>
            /\ results'[k].origin \notin C13_Executed
            /\ results'[k].origin \in C13_Executed'
    /\ C13_Executed \subseteq C13_Executed'

\* C13: a pending confirmation is consumed exactly once: the batch stored in
\* one entry is executed at most once, and a second affirmative response,
\* after the first or while the first is being handled, does not execute
\* the stored batch again.
C13_ConsumedOnce ==
    [][C13_ConsumeStep]_vars

\* C13 witness: a second affirmative response of a user arrived while the
\* handler of the first is suspended before the execution; it consumed
\* nothing and executed nothing of the stored batch
C13_Witness ==
    /\ handled.op = "message" /\ Affirmative(handled.text)
    /\ sent.kind # "executing"
    /\ \E frame \in executing : frame.user = handled.user
    /\ \A k \in 1..Len(results) : results[k].origin = 0

\* the latest step ran a batch of which a command failed
BatchFailed == sent.kind = "failed"
\* the suggestion the interpreter returned for the failure (NoFix: none)
SuggestedFix == sent.notes[1].reason

\* C14: when a command of an executing batch failed and the interpreter
\* returned a suggestion, the suggestion has not been executed: the failed
\* command is the last one handed to the ExecutionEngine, and the suggestion
\* is stored as a new pending confirmation of the same user that holds
\* exactly that one command, so the user awaits confirmation.
C14_FixStoredNotExecuted ==
    (BatchFailed /\ SuggestedFix # NoFix) =>
        /\ results # << >>
        /\ \A k \in 1..Len(results) :
             /\ results[k].user = sent.user
             /\ results[k].success <=> k < Len(results)
        /\ results[Len(results)].cmd = sent.notes[1].cmd
        /\ sent.user \in DOMAIN pending_confirmations
        /\ pending_confirmations[sent.user].commands = <<SuggestedFix>>
        /\ pending_confirmations[sent.user].context.vps = results[1].vps
        /\ pending_confirmations[sent.user].timestamp = clock
        /\ \A c \in confirmed \cup cancelled : c.timestamp # clock
        /\ \A frame \in executing : frame.origin # clock

\* C14 witness: of a two-command batch the first command succeeded and the
\* second failed, and the suggested fix is pending
C14_Witness ==
    /\ BatchFailed /\ SuggestedFix # NoFix
    /\ Len(results) = 2 /\ results[1].success /\ ~results[2].success
    /\ pending_confirmations[sent.user].commands = <<SuggestedFix>>

\* what a step executes from a stored entry (a batch awaiting confirmation
\* or a suggested fix) was confirmed by its user in an earlier step
C15_FixRunsAfterAffirmative ==
    \A k \in 1..Len(results') :
        results'[k].origin # 0 =>
            [user |-> results'[k].user, timestamp |-> results'[k].origin] \in confirmed

\* a step executes one batch and stops at its first failure, for which it
\* asks for one suggestion and reports it
C15_OneSuggestionPerFailure ==
    /\ \A k \in 1..Len(results') : ~results'[k].success => k = Len(results')
    /\ \A j, k \in 1..Len(results') : results'[j].origin = results'[k].origin
    /\ sent'.kind = "failed" =>
          /\ Len(sent'.notes) = 1
          /\ results' # << >> /\ sent'.notes[1].cmd = results'[Len(results')].cmd

\* after a step that executed a batch for a user, no further batch is
\* executed for that user until a message of the user is handled
C15_OneBatchPerMessage ==
    (results # << >> /\ results' # << >> /\ results'[1].user = results[1].user)
        => (handled'.op = "message" /\ handled'.user = results[1].user)

\* C15: no self-loop on corrective attempts: each failure leads to at most
\* one request for a suggestion; between two consecutive messages of a user
\* at most one batch is executed for that user; a suggested fix is executed
\* only after a later affirmative message of the user.
C15_NoSelfLoop ==
    [][/\ C15_OneSuggestionPerFailure
       /\ C15_OneBatchPerMessage
       /\ C15_FixRunsAfterAffirmative]_vars

\* the latest step handed a command to the ExecutionEngine that failed
CommandFailed == results # << >> /\ ~results[Len(results)].success

\* a failed command is reported by one failure message to the user of the
\* batch, naming that command, and every failure message reports one
C16_OneFailureMessage ==
    /\ CommandFailed =>
          /\ sent.kind = "failed"
          /\ sent.user = results[Len(results)].user
          /\ Len(sent.notes) = 1
          /\ sent.notes[1].cmd = results[Len(results)].cmd
    /\ BatchFailed => CommandFailed

\* C16: every batch failure ends in exactly one failure message reported to
\* the user, no failure path ends without a message, and when no suggestion
\* is available the user has no pending confirmation afterwards.
C16_FailureReportedThenIdle ==
    /\ C16_OneFailureMessage
    /\ (CommandFailed /\ SuggestedFix = NoFix) =>
          sent.user \notin DOMAIN pending_confirmations

\* the handlers of one user that are suspended after an affirmative response
Suspended(user) == {frame \in executing : frame.user = user}

\* C22: the handling of two messages of one user is never interleaved: while
\* the handler of a user's affirmative response is suspended before the
\* execution of the confirmed batch, no other message of that user is
\* handled.
C22_PerUserSerialization ==
    \A user \in Users :
        (Suspended(user) # {} /\ handled.op = "message" /\ handled.user = user) =>
            /\ sent.kind = "executing"
            /\ Cardinality(Suspended(user)) = 1

\* the replies of _process_command for a batch of commands
BatchReplies == {"blocked", "preview", "success", "failed"}

\* C25: when the interpreter returns no structure, or one without a
\* commands list, the orchestrator executes nothing, stores no pending
\* confirmation for the user and sends the interpreter's text.
C25_NoIntentIsChat ==
    /\ (handled.op = "message" /\ handled.commands = NoCommands) =>
          results = << >> /\ sent.kind \notin BatchReplies
    /\ sent.kind = "chat" =>
          /\ handled.op = "message" /\ handled.commands = NoCommands
          /\ sent = Reply(handled.user, "chat", << >>)
          /\ results = << >>
          /\ handled.user \notin DOMAIN pending_confirmations

\* the interpreter answers a user with text while another user has a
\* pending confirmation
C25_Witness ==
    /\ sent.kind = "chat"
    /\ handled.commands = NoCommands
    /\ pending_confirmations # EmptyMap
    /\ received = 2

\* a message of a user with a pending entry is handled as a response to the
\* entry and as nothing else: no batch comes from the interpreter, the reply
\* is one of the three of _handle_confirmation, no target changes, no entry
\* is created, and the entry stays as it is unless the response is an
\* affirmative or a negative token
C31_PendingStep ==
    \A user \in DOMAIN pending_confirmations :
        (/\ received' = received + 1
         /\ handled'.user = user)
            => /\ handled'.commands = NoCommands
               /\ sent'.user = user
               /\ sent'.kind \in {"executing", "cancelled", "reprompt"}
               /\ results' = << >>
               /\ current_vps' = current_vps
               /\ clock' = clock
               /\ user \in DOMAIN pending_confirmations' =>
                    pending_confirmations'[user] = pending_confirmations[user]
               /\ user \notin DOMAIN pending_confirmations' =>
                    Affirmative(handled'.text) \/ Negative(handled'.text)

\* C31: while a user has a pending confirmation, every message of that user
\* (a request, help, status, switch) is treated only as a confirmation
\* response: it never reaches the interpreter, never changes the active
\* target and never replaces the pending entry; a new batch is accepted only
\* after the entry was resolved by an affirmative or a negative response.
C31_OnlyConfirmationWhilePending ==
    [][C31_PendingStep]_vars

\* a user with a pending entry asks for another target and is re-prompted:
\* the entry is still pending and the user has no active target
C31_Witness ==
    /\ handled.op = "message" /\ handled.text = "switch vps1"
    /\ sent = Reply(handled.user, "reprompt", << >>)
    /\ handled.user \in DOMAIN pending_confirmations
    /\ handled.user \notin DOMAIN current_vps

\* an entry of the store is not replaced: while a user has an entry, no step
\* writes another one for that user
C32_EntryStep ==
    \A user \in DOMAIN pending_confirmations :
        user \in DOMAIN pending_confirmations' =>
            pending_confirmations'[user] = pending_confirmations[user]

\* C32: a stored pending confirmation is never overwritten: an entry is
\* written for a user only when that user has none, so a batch awaiting
\* confirmation is never replaced by another batch or by a fix suggestion,
\* also when handlers of the same user interleave at their awaits.
C32_NeverOverwritten ==
    [][C32_EntryStep]_vars

---------------------------------------------------------------------------
(* The orchestrator in admin-only mode with a sender that is not allowed *)

InitAdmin ==
    /\ safety_level = "medium"
    /\ blocked_patterns = << >>
    /\ confirmation_commands = << >>
    /\ command = ""
    /\ result = NoResult
    /\ NoArguments
    /\ confirm_all \in BOOLEAN
    /\ InitBot
    /\ max_retries = DefaultMaxRetries
    /\ IdleExecutor
    /\ IdleBatch
    /\ admin_only = TRUE
    /\ allowed_numbers \in {{"u1"}, {}}
    /\ requires_confirmation_hint = FALSE
    /\ EmptyMemory

NextAdmin ==
    \/ Next
    \/ \E user \in Users, text \in MessageTexts : Unauthorized(user, text)

SpecAdmin == InitAdmin /\ [][NextAdmin]_vars

\* the senders the gate turns away
Strangers == IF admin_only THEN Users \ allowed_numbers ELSE {}

\* nothing of the orchestrator belongs to a sender the gate turns away: no
\* pending entry, no active target, no suspended handler, no executed
\* command, no reply, no interpreter output
C34_NothingForStrangers ==
    \A user \in Strangers :
        /\ user \notin DOMAIN pending_confirmations
        /\ user \notin DOMAIN current_vps
        /\ \A frame \in executing : frame.user # user
        /\ \A k \in 1..Len(results) : results[k].user # user
        /\ sent.user # user
        /\ handled.user = user => handled.commands = NoCommands /\ sent = NoReply

\* the step that handles a message of such a sender sends nothing, executes
\* nothing and leaves every entry, suspended handler and target as it was
C34_StrangerStep ==
    \A user \in Strangers :
        (/\ received' = received + 1
         /\ handled'.user = user)
            => /\ sent' = NoReply
               /\ results' = << >>
               /\ pending_confirmations' = pending_confirmations
               /\ executing' = executing
               /\ current_vps' = current_vps
               /\ clock' = clock
               /\ confirmed' = confirmed
               /\ cancelled' = cancelled

\* C34: in admin-only mode a message from a sender that is not in the
\* allowed list leads to no interpreter call, no command execution, no
\* pending confirmation created or consumed and no change of an active
\* target, and no reply is sent to that sender.
C34_StrangersAreIgnored ==
    [](C34_NothingForStrangers) /\ [][C34_StrangerStep]_vars

\* a sender that is not allowed answers 'Proceed ' while an allowed user has
\* a pending entry: nothing is sent and the entry stays
C34_Witness ==
    /\ admin_only /\ handled.user \notin allowed_numbers
    /\ handled.op = "message" /\ handled.text = "Proceed "
    /\ sent = NoReply
    /\ "u1" \in DOMAIN pending_confirmations

---------------------------------------------------------------------------
(* The decision of _process_command under both values of the hint *)

\* an interpreter that sets requires_confirmation on every batch or on none,
\* at every policy level, with and without confirm_all
InitHint ==
    /\ safety_level \in Levels
    /\ blocked_patterns = << >>
    /\ confirmation_commands = << >>
    /\ command = ""
    /\ result = NoResult
    /\ NoArguments
    /\ confirm_all \in BOOLEAN
    /\ InitBot
    /\ max_retries = DefaultMaxRetries
    /\ IdleExecutor
    /\ IdleBatch
    /\ admin_only = TRUE
    /\ allowed_numbers = Users
    /\ requires_confirmation_hint \in BOOLEAN
    /\ EmptyMemory

NextHint ==
    \E user \in Users, text \in MessageTexts : ProcessCommand(user, text)

SpecHint == InitHint /\ [][NextHint]_vars

\* the batch the latest step handled was executed at once
ExecutedAtOnce ==
    /\ sent.kind \in {"success", "failed"}
    /\ results # << >> \/ handled.commands = << >>
    /\ \A k \in 1..Len(results) : results[k].origin = 0

\* C35: the decision between executing, asking for confirmation and
\* rejecting depends only on the classifier's verdicts of the commands of
\* the batch and on confirm_all: whatever requires_confirmation hint the
\* interpreter set, a batch with a blocked command is rejected, a batch
\* without one is stored when a verdict requires confirmation or confirm_all
\* is set, and is executed at once otherwise.
C35_DecisionFromVerdicts ==
    BatchHandled =>
      /\ ~all_safe(handled.commands) =>
            sent.kind = "blocked" /\ results = << >>
      /\ (all_safe(handled.commands)
            /\ (needs_confirmation(handled.commands) \/ confirm_all)) =>
            /\ sent.kind = "preview" /\ results = << >>
            /\ handled.user \in DOMAIN pending_confirmations
            /\ pending_confirmations[handled.user].commands = handled.commands
      /\ (all_safe(handled.commands)
            /\ ~(needs_confirmation(handled.commands) \/ confirm_all)) =>
            ExecutedAtOnce

\* the interpreter set the hint, no verdict requires confirmation and
\* confirm_all is off: the batch was executed at once
C35_Witness ==
    /\ BatchHandled /\ requires_confirmation_hint /\ ~confirm_all
    /\ handled.commands = <<"make", "make">>
    /\ sent.kind = "success" /\ Len(results) = 2

---------------------------------------------------------------------------
(* The classifier alone: one call of check_command on a bounded text *)

\* the caller-supplied extensions the model's configurations choose from
BlockedExtensions == {<< >>, <<"curl">>}
ConfirmExtensions == {<< >>, <<"wget">>}

\* pieces of command text; a classified text is a concatenation of them
Chunks == {" ", "rm ", "rm -rf ", "/", "echo ", "Reboot", "dd ", "curl", "wget"}

RECURSIVE TextsUpTo(_)
TextsUpTo(n) ==
    IF n = 0 THEN {""}
    ELSE LET shorter == TextsUpTo(n - 1)
         IN  shorter \cup {t \o c : t \in shorter, c \in Chunks}

Texts == TextsUpTo(MaxChunks)

InitSafety ==
    /\ safety_level \in Levels
    /\ \E k \in {1, 2} :
         /\ blocked_patterns = (IF k = 1 THEN << >> ELSE <<"curl">>)
         /\ confirmation_commands = (IF k = 1 THEN << >> ELSE <<"wget">>)

InitClassify ==
    /\ InitSafety
    /\ command \in Texts
    /\ result = NoResult
    /\ NoArguments
    /\ confirm_all = FALSE
    /\ InitBot
    /\ max_retries = DefaultMaxRetries
    /\ IdleExecutor
    /\ IdleBatch
    /\ OpenAccess
    /\ EmptyMemory

\* result = safety.check_command(command)
CheckCommand ==
    /\ result = NoResult
    /\ result' = classify(command)
    /\ UNCHANGED <<safetyVars, envVars, memVars, command, path, operation, allow_sudo, botVars, execVars,
                   batchVars>>

\* the batches around the command of the state that the interpreter may
\* return
BatchesWith(cmd) == {<<cmd>>, <<"make", cmd>>, <<cmd, "make">>}

\* _handle_message -> _process_command: the interpreter returns a batch
\* that holds the command of the state, an empty or blank text
ProcessBlankBatch(user, text, commands) ==
    /\ strip(command) = ""
    /\ received = 0
    /\ user \notin DOMAIN pending_confirmations
    /\ ~IsHelp(text) /\ ~IsStatus(text) /\ ~IsSwitch(text)
    /\ Deliver(user, text, commands)
    /\ process_batch(user, commands)
    /\ UNCHANGED <<safetyVars, envVars, memVars, callVars, execVars, batchVars, confirm_all, current_vps,
                   executing, confirmed, cancelled>>

NextClassify ==
    \/ CheckCommand
    \/ \E user \in Users, text \in MessageTexts, commands \in BatchesWith(command) :
         ProcessBlankBatch(user, text, commands)

SpecClassify == InitClassify /\ [][NextClassify]_vars

---------------------------------------------------------------------------
(* Claims about the classifier, checked under SpecClassify *)

Classified == result # NoResult

MatchesCritical(text) == any_search(CRITICAL_PATTERNS, text)
MatchesHighRisk(text) == any_search(HIGH_RISK_PATTERNS, text)
\* the text equals a safe-list entry or starts with one followed by a space
InSafeList(text) ==
    \E k \in 1..Len(SAFE_COMMANDS) :
        text = SAFE_COMMANDS[k] \/ startswith(text, SAFE_COMMANDS[k] \o " ")
\* the text matches one of the caller-supplied blocked patterns
MatchesBlockedExtension(text) ==
    \E k \in 1..Len(blocked_patterns) : search(compile(blocked_patterns[k]), text)
\* the text contains a name of the confirmation-required list, built-in or
\* caller-supplied
ContainsConfirmationName(text) ==
    \/ \E k \in 1..Len(CONFIRMATION_COMMANDS) : contains(text, CONFIRMATION_COMMANDS[k])
    \/ \E k \in 1..Len(confirmation_commands) : contains(text, confirmation_commands[k])

\* C4: a command that matches a critical pattern is classified is_safe=false,
\* requires_confirmation=false, risk_level=critical, under every policy level
\* and whether or not it also matches a high-risk pattern or the safe list.
C4_CriticalAlwaysBlocked ==
    (Classified /\ MatchesCritical(command)) =>
        /\ result.is_safe = FALSE
        /\ result.requires_confirmation = FALSE
        /\ result.risk_level = "critical"

\* C4 witness: a classified command that matches a critical pattern, a
\* high-risk pattern and the safe list, under the most permissive level
C4_Witness ==
    /\ Classified /\ safety_level = "low"
    /\ MatchesCritical(command) /\ MatchesHighRisk(command) /\ InSafeList(command)
    /\ result.risk_level = "critical"

\* C5 as stated: a command of the safe list (exact entry, or entry followed
\* by a space) is classified requires_confirmation=false under every level.
C5_SafeListNeverConfirms ==
    (Classified /\ InSafeList(command)) => result.requires_confirmation = FALSE

\* C5 amended: a command of the safe list is classified
\* requires_confirmation=false under every level, unless it matches a
\* high-risk pattern and no critical pattern.
C5_SafeListNeverConfirmsUnlessHighRisk ==
    (/\ Classified /\ InSafeList(command)
     /\ ~(MatchesHighRisk(command) /\ ~MatchesCritical(command)))
        => result.requires_confirmation = FALSE

\* C5 witness: a safe-list command by prefix, no high-risk match, under the
\* strictest level, classified without confirmation
C5_Witness ==
    /\ Classified /\ safety_level = "high"
    /\ InSafeList(command) /\ command \notin Range(SAFE_COMMANDS)
    /\ ~MatchesHighRisk(command) /\ ~MatchesCritical(command)
    /\ result.is_safe /\ ~result.requires_confirmation

C8_BlockedExtensionBlocks ==
    (Classified /\ MatchesBlockedExtension(command)) => result.is_safe = FALSE

\* a batch holds an empty or whitespace-only command
HoldsEmptyCommand(commands) ==
    \E k \in 1..Len(commands) : strip(commands[k]) = ""

\* C29: an empty or whitespace-only command is classified is_safe=false,
\* requires_confirmation=false with the reason "Empty command" under every
\* policy level, and a batch that holds one is rejected as a whole: nothing
\* of it is executed or stored.
C29_EmptyCommandUnsafe ==
    /\ (Classified /\ strip(command) = "") =>
          /\ ~result.is_safe /\ ~result.requires_confirmation
          /\ result.reason = "Empty command"
    /\ (handled.op = "message" /\ handled.commands # NoCommands
        /\ HoldsEmptyCommand(handled.commands)) =>
          /\ sent.user = handled.user /\ sent.kind = "blocked"
          /\ \E k \in 1..Len(sent.notes) :
                strip(sent.notes[k].cmd) = "" /\ sent.notes[k].reason = "Empty command"
          /\ results = << >>
          /\ pending_confirmations = EmptyMap
          /\ executing = {}

\* under the low policy level a batch of a command no rule matches and a
\* blank command is rejected
C29_Witness ==
    /\ safety_level = "low"
    /\ Classified /\ command # "" /\ strip(command) = ""
    /\ handled.commands = <<"make", command>>
    /\ sent.kind = "blocked" /\ Len(sent.notes) = 1

---------------------------------------------------------------------------
(* check_file_operation alone: one call on a bounded path *)

\* pieces of path text; a checked path is a concatenation of them
PathChunks == {"/", "/etc", "/boot", "/sys", "/passwd", "/home", " ", "2"}

RECURSIVE PathsUpTo(_)
PathsUpTo(n) ==
    IF n = 0 THEN {""}
    ELSE LET shorter == PathsUpTo(n - 1)
         IN  shorter \cup {t \o c : t \in shorter, c \in PathChunks}

Paths == PathsUpTo(MaxChunks)

Operations == {"read", "write", "delete"}

InitFile ==
    /\ safety_level = "medium"
    /\ blocked_patterns = << >>
    /\ confirmation_commands = << >>
    /\ command = ""
    /\ result = NoResult
    /\ path \in Paths
    /\ operation \in Operations
    /\ allow_sudo = FALSE
    /\ confirm_all = FALSE
    /\ InitBot
    /\ max_retries = DefaultMaxRetries
    /\ IdleExecutor
    /\ IdleBatch
    /\ OpenAccess
    /\ EmptyMemory

\* result = safety.check_file_operation(path, operation)
CheckFileOperation ==
    /\ result = NoResult
    /\ result' = check_file_operation(path, operation)
    /\ UNCHANGED <<safetyVars, envVars, memVars, command, path, operation, allow_sudo, botVars, execVars,
                   batchVars>>

NextFile == CheckFileOperation

SpecFile == InitFile /\ [][NextFile]_vars

\* the critical paths as a set
CriticalPaths == Range(critical_paths)

\* p lies beneath the directory dir
LiesBeneath(p, dir) ==
    IF dir = "/" THEN startswith(p, "/") /\ p # "/"
    ELSE startswith(p, dir \o "/")

\* p equals a critical path or lies beneath one
OnCriticalPath(p) ==
    \E c \in CriticalPaths : p = c \/ LiesBeneath(p, c)

\* p equals a critical path, lies beneath one other than root, or starts
\* with two slashes
OnBlockedPath(p) ==
    \/ p \in CriticalPaths
    \/ \E c \in CriticalPaths \ {"/"} : LiesBeneath(p, c)
    \/ startswith(p, "//")

\* C27, as stated: write or delete on a path that equals a critical path or
\* lies beneath one (root included) is blocked with risk level critical; a
\* write to any other path under /etc/ is safe and requires confirmation; a
\* read is never blocked and never requires confirmation.
C27_CriticalPathsBlocked ==
    Classified =>
      LET p == strip(path)
      IN  /\ (operation \in {"write", "delete"} /\ OnCriticalPath(p)) =>
                ~result.is_safe /\ result.risk_level = "critical"
          /\ (operation = "write" /\ startswith(p, "/etc/") /\ ~OnCriticalPath(p)) =>
                result.is_safe /\ result.requires_confirmation
          /\ operation = "read" =>
                result.is_safe /\ ~result.requires_confirmation

\* C27, amended: of the paths beneath root only root itself and the paths
\* that start with two slashes are blocked; beneath every other critical
\* path all are; a write or delete is blocked exactly on these paths.
C27_ListedPathsBlocked ==
    Classified =>
      LET p == strip(path)
      IN  /\ (operation \in {"write", "delete"} /\ OnBlockedPath(p)) =>
                ~result.is_safe /\ result.risk_level = "critical"
          /\ (operation \in {"write", "delete"} /\ ~OnBlockedPath(p)) => result.is_safe
          /\ (operation = "write" /\ startswith(p, "/etc/") /\ ~OnBlockedPath(p)) =>
                result.is_safe /\ result.requires_confirmation
          /\ operation = "read" =>
                result.is_safe /\ ~result.requires_confirmation

\* a delete beneath /boot is blocked
C27_Witness ==
    /\ Classified
    /\ operation = "delete" /\ path = " /boot/home"
    /\ ~result.is_safe /\ result.risk_level = "critical"

---------------------------------------------------------------------------
(* validate_ssh_command alone: one call on a bounded command text *)

\* pieces of command text for the remote check
SshChunks == {"sudo ", "sudo", " ", "rm -rf ", "/", "ls", "reboot"}

RECURSIVE SshTextsUpTo(_)
SshTextsUpTo(n) ==
    IF n = 0 THEN {""}
    ELSE LET shorter == SshTextsUpTo(n - 1)
         IN  shorter \cup {t \o c : t \in shorter, c \in SshChunks}

SshTexts == SshTextsUpTo(MaxChunks)

InitSsh ==
    /\ InitSafety
    /\ command \in SshTexts
    /\ result = NoResult
    /\ path = ""
    /\ operation = "read"
    /\ allow_sudo \in BOOLEAN
    /\ confirm_all = FALSE
    /\ InitBot
    /\ max_retries = DefaultMaxRetries
    /\ IdleExecutor
    /\ IdleBatch
    /\ OpenAccess
    /\ EmptyMemory

\* result = safety.validate_ssh_command(command, allow_sudo)
ValidateSshCommand ==
    /\ result = NoResult
    /\ result' = validate_ssh_command(command, allow_sudo)
    /\ UNCHANGED <<safetyVars, envVars, memVars, command, path, operation, allow_sudo, botVars, execVars,
                   batchVars>>

NextSsh == ValidateSshCommand

SpecSsh == InitSsh /\ [][NextSsh]_vars

\* the command is privilege-escalated: after the leading whitespace it
\* starts with the word sudo and a space
LeadingSudo(text) == startswith(strip(text), "sudo ")

\* C28: validate_ssh_command rejects a command with leading sudo
\* (is_safe=false) when escalation is not allowed, answers is_safe=true with
\* requires_confirmation=true when it is allowed, and gives a command
\* without escalation exactly the verdict of check_command.
C28_SudoGate ==
    Classified =>
      /\ (LeadingSudo(command) /\ ~allow_sudo) => ~result.is_safe
      /\ (LeadingSudo(command) /\ allow_sudo) =>
            result.is_safe /\ result.requires_confirmation
      /\ ~LeadingSudo(command) => result = classify(command)

\* an allowed sudo command that matches a critical pattern is answered with
\* a request for confirmation
C28_Witness ==
    /\ Classified
    /\ command = "sudo rm -rf /" /\ allow_sudo
    /\ result.is_safe /\ result.requires_confirmation

\* C33: validate_ssh_command never answers is_safe=true for a command that
\* check_command blocks: for every command and both values of allow_sudo, a
\* command blocked by check_command is blocked by validate_ssh_command,
\* also one that starts with sudo when escalation is allowed.
C33_NeverSaferThanClassify ==
    Classified => (~classify(command).is_safe => ~result.is_safe)

---------------------------------------------------------------------------
(* The execution engine alone: one call of execute or test_connection *)

InitExec ==
    /\ safety_level = "medium"
    /\ blocked_patterns = << >>
    /\ confirmation_commands = << >>
    /\ command = ""
    /\ result = NoResult
    /\ NoArguments
    /\ confirm_all = FALSE
    /\ InitBot
    /\ max_retries \in 0..MaxRetries
    /\ IdleExecutor
    /\ IdleBatch
    /\ OpenAccess
    /\ EmptyMemory

NextExec ==
    \/ /\ batch_pc = "idle"
       /\ \E remote \in BOOLEAN, retry_on_failure \in BOOLEAN :
            Execute(remote, retry_on_failure)
    \/ LoopTest
    \/ \E outcome \in LocalOutcomes : RunLocal(outcome[1], outcome[2], outcome[3])
    \/ \E outcome \in ConnectOutcomes : Connect(outcome[1], outcome[2])
    \/ \E outcome \in RemoteOutcomes : RunRemote(outcome[1], outcome[2], outcome[3])
    \/ Finally
    \/ batch_pc = "idle" /\ TestConnection
    \/ \E kind \in TestOutcomes : TestConnect(kind)
    \/ TestFinally
    \/ \E commands \in Batches, remote \in BOOLEAN, stop \in BOOLEAN :
         ExecuteBatch(commands, remote, stop)
    \/ BatchExecute
    \/ BatchCollect

SpecExec == InitExec /\ [][NextExec]_vars

---------------------------------------------------------------------------
(* Claims about the execution engine, checked under SpecExec *)

\* execute has returned
Returned == exec_pc = "returned" /\ xcall.op = "execute"

\* the last attempt made
LastAttempt == attempts[Len(attempts)]

\* the command first exits zero on the last attempt, after nonzero exits only
FirstZeroAfterNonzero ==
    /\ attempts # << >>
    /\ LastAttempt = Attempt("exit", 0)
    /\ \A i \in 1..(Len(attempts) - 1) :
         attempts[i].kind = "exit" /\ attempts[i].code # 0

\* C17: on the local and on the remote path, the retries field of every
\* returned ExecutionResult is at most max_retries, and a command that
\* first exits zero on attempt N after N-1 nonzero exits returns
\* success=true with retries = N-1.
C17_RetriesWithinBudget ==
    Returned =>
      /\ exec_result.retries <= max_retries
      /\ FirstZeroAfterNonzero =>
           /\ exec_result.success
           /\ exec_result.retries = Len(attempts) - 1

\* a remote command succeeds on its third attempt
C17_Witness ==
    /\ Returned /\ xcall.remote
    /\ FirstZeroAfterNonzero
    /\ Len(attempts) = 3
    /\ exec_result.success /\ exec_result.retries = 2

\* the error message of a result names a timeout
IndicatesTimeout(res) ==
    \/ contains(lower(res.error_message), "timed out")
    \/ contains(lower(res.error_message), "timeout")

\* C18: when an attempt exceeds the per-attempt timeout, execute returns
\* success=false with an error message indicating a timeout, and the timed
\* out attempt is the last one, on the local and on the remote path.
C18_TimeoutReportedNoRetry ==
    /\ \A i \in 1..Len(attempts) : attempts[i].kind = "timeout" => i = Len(attempts)
    /\ (Returned /\ attempts # << >> /\ LastAttempt.kind = "timeout") =>
         /\ ~exec_result.success
         /\ IndicatesTimeout(exec_result)

\* a connection, authentication or transport failure of a remote attempt
ConnectionFailures == {"auth_failure", "ssh_error", "connect_error"}

\* C19: on a remote target a connection, authentication or transport
\* failure is retried like a nonzero exit: it is terminal only when
\* max_retries retries have been made.
C19_ConnectionFailureRetried ==
    (/\ Returned /\ xcall.remote /\ xcall.retry_on_failure
     /\ attempts # << >> /\ LastAttempt.kind \in ConnectionFailures)
      => exec_result.retries = max_retries

\* the attempts of a remote call that have started
AttemptsStarted ==
    Len(attempts) + (IF exec_pc \in {"connect", "run"} THEN 1 ELSE 0)

\* C20: every attempt of a remote execution opens its own session, at most
\* one session is open at any time, the session of an attempt is closed
\* before the next attempt starts, and none is open when execute or
\* test_connection returns, however the attempt ended.
C20_NoSessionLeak ==
    /\ sessions_open \in {0, 1}
    /\ xcall.remote => sessions_opened = AttemptsStarted
    /\ exec_pc \in {"idle", "loop", "returned"} => sessions_open = 0
    /\ sessions_open = 1 <=> ssh = "open"

\* a remote execution returns after a retry and a timed out second attempt
C20_Witness ==
    /\ Returned /\ xcall.remote
    /\ sessions_opened = 2 /\ sessions_open = 0
    /\ LastAttempt.kind = "timeout"

\* the position of the first failed result of a list of results, 0 if none
FirstFailure(rs) ==
    IF \E i \in 1..Len(rs) : ~rs[i].success
    THEN CHOOSE i \in 1..Len(rs) : ~rs[i].success /\ \A j \in 1..(i - 1) : rs[j].success
    ELSE 0

\* C21: execute_batch with stop_on_error=true attempts the commands in list
\* order and none after the first failing one: results holds one result per
\* attempted command, in order, and its length is the position of the first
\* failure, or the full length when none fails.
C21_StopsAtFirstFailure ==
    stop_on_error =>
      /\ Len(batch_results) <= Len(batch)
      /\ \A i \in 1..Len(batch_results) : batch_results[i].cmd = batch[i]
      /\ \A i \in 1..(Len(batch_results) - 1) : batch_results[i].success
      /\ (batch_pc = "loop" /\ exec_pc # "idle") =>
            \A i \in 1..Len(batch_results) : batch_results[i].success
      /\ batch_pc = "returned" =>
            Len(batch_results) =
              (IF FirstFailure(batch_results) = 0 THEN Len(batch)
               ELSE FirstFailure(batch_results))

\* a batch of two commands returns after its first command failed
C21_Witness ==
    /\ batch_pc = "returned" /\ stop_on_error
    /\ Len(batch) = 2
    /\ Len(batch_results) = 1 /\ ~batch_results[1].success

\* the calls _execute_commands makes for a batch, as (command, success)
OrchestratorCalls(commands, fail) ==
    LET ran == Ran("u1", commands, [vps |-> NoVps], 0, fail)
    IN  [k \in DOMAIN ran |-> [cmd |-> ran[k].cmd, success |-> ran[k].success]]

\* C24: the orchestrator's batch execution equals execute_batch with
\* stop_on_error=true: for every batch and every pattern of outcomes both
\* attempt the same commands in the same order, one at a time, a command
\* starting only after the one before it returned success, and both stop at
\* the first failure.
C24_OrchestratorMatchesExecuteBatch ==
    stop_on_error =>
      /\ batch_pc = "returned" =>
           batch_results = OrchestratorCalls(batch, FirstFailure(batch_results))
      /\ (batch_pc = "loop" /\ exec_pc # "idle") =>
           /\ FirstFailure(batch_results) = 0
           /\ batch_results =
                SubSeq(OrchestratorCalls(batch, 0), 1, Len(batch_results))

\* a batch of two commands whose second command fails
C24_Witness ==
    /\ batch_pc = "returned" /\ stop_on_error
    /\ Len(batch) = 2 /\ batch[1] # batch[2]
    /\ Len(batch_results) = 2
    /\ batch_results[1].success /\ ~batch_results[2].success

\* every attempt so far ended with a nonzero exit
AllNonzero ==
    \A i \in 1..Len(attempts) : attempts[i].kind = "exit" /\ attempts[i].code # 0

\* C30: with retries enabled a command that exits nonzero on every attempt
\* is attempted exactly max_retries+1 times and returns success=false,
\* retries = max_retries and the last attempt's return code; a zero exit is
\* the last attempt and returns success; with retry_on_failure=false there
\* is exactly one attempt and retries = 0.
C30_AttemptCount ==
    /\ \A i \in 1..Len(attempts) : attempts[i] = Attempt("exit", 0) => i = Len(attempts)
    /\ Returned =>
         /\ (xcall.retry_on_failure /\ AllNonzero) =>
              /\ Len(attempts) = max_retries + 1
              /\ ~exec_result.success
              /\ exec_result.retries = max_retries
              /\ exec_result.return_code = LastAttempt.code
         /\ LastAttempt = Attempt("exit", 0) => exec_result.success
         /\ ~xcall.retry_on_failure =>
              Len(attempts) = 1 /\ exec_result.retries = 0

\* a local command fails three times, the last time with another exit code
C30_Witness ==
    /\ Returned /\ ~xcall.remote /\ xcall.retry_on_failure
    /\ AllNonzero /\ Len(attempts) = 3
    /\ attempts[1].code = 1 /\ LastAttempt.code = 2
    /\ exec_result.return_code = 2 /\ exec_result.retries = 2

\* C37: execute_batch with stop_on_error=false attempts every command of the
\* list in order whatever fails: result i belongs to command i, the loop goes
\* on after a failed result, and the returned list has the length of the
\* command list.
C37_AttemptsEveryCommand ==
    ~stop_on_error =>
      /\ Len(batch_results) <= Len(batch)
      /\ \A i \in 1..Len(batch_results) : batch_results[i].cmd = batch[i]
      /\ batch_pc = "returned" => Len(batch_results) = Len(batch)
      /\ (batch_pc = "loop" /\ exec_pc = "idle") => Len(batch_results) < Len(batch)

\* a batch of two different commands returns two results, the first a failure
C37_Witness ==
    /\ batch_pc = "returned" /\ ~stop_on_error
    /\ Len(batch) = 2 /\ batch[1] # batch[2]
    /\ Len(batch_results) = 2
    /\ ~batch_results[1].success /\ batch_results[2].success

\* the execution engine under the assumption that every step of execute
\* ends: the while test and the finally clause are straight-line code, and
\* an attempt ends by exit, exception or timeout
SpecExecFair ==
    /\ SpecExec
    /\ WF_vars(LoopTest)
    /\ WF_vars(\E outcome \in LocalOutcomes : RunLocal(outcome[1], outcome[2], outcome[3]))
    /\ WF_vars(\E outcome \in ConnectOutcomes : Connect(outcome[1], outcome[2]))
    /\ WF_vars(\E outcome \in RemoteOutcomes : RunRemote(outcome[1], outcome[2], outcome[3]))
    /\ WF_vars(Finally)

\* a call of execute has not returned yet
InExecute == xcall.op = "execute" /\ exec_pc \notin {"idle", "returned"}

\* the attempts of a call stay within the budget, the while test never
\* fails, and the result of a returned call is not the one after the loop
C38_WithinLoop ==
    /\ xcall.op = "execute" =>
         /\ Len(attempts) <= max_retries + 1
         /\ retries <= loop_limit
    /\ Returned =>
         /\ Len(attempts) >= 1
         /\ exec_result.error_message # "Max retries exceeded"

\* C38: the retry loop terminates: for every max_retries >= 0, when each
\* attempt ends, execute makes at least one and at most max_retries+1
\* attempts and then returns a result from inside the loop; the result
\* 'Max retries exceeded' after the loop is never returned.
C38_RetryLoopTerminates ==
    /\ []C38_WithinLoop
    /\ InExecute ~> Returned

\* with max_retries = 0 and retries asked for, execute returns the failure
\* of its only attempt
C38_Witness ==
    /\ Returned /\ xcall.retry_on_failure
    /\ max_retries = 0
    /\ Len(attempts) = 1 /\ LastAttempt = Attempt("exit", 1)
    /\ exec_result.error_message = "Command failed with exit code 1"

---------------------------------------------------------------------------
(* The orchestrator and the execution engine on one event loop: the calls *)
(* of executor.execute inside _execute_commands, step by step             *)

\* the thread of the event loop is not inside a call of the Executor:
\* executor.execute and executor.test_connection are plain calls, not
\* awaited, and wait in communicate, in the reads of the channel and in
\* time.sleep
EventLoopFree == exec_pc = "idle"

\* the call self.executor.execute(cmd, vps=vps_name, ssh_config=ssh_config)
\* of _execute_commands: remote when the context names a configured VPS
CallExecute(context) ==
    /\ xcall' = Call("execute", context.vps \in VpsNames, TRUE)
    /\ exec_pc' = "loop"
    /\ retries' = 0
    /\ attempts' = << >>
    /\ sessions_opened' = 0
    /\ exec_result' = NoExecResult
    /\ UNCHANGED <<max_retries, ssh, sessions_open, returning>>

\* the Executor returned to its caller
ExecutorReturns ==
    /\ xcall' = NoCall
    /\ exec_pc' = "idle"
    /\ retries' = 0
    /\ attempts' = << >>
    /\ sessions_opened' = 0
    /\ exec_result' = NoExecResult
    /\ UNCHANGED <<max_retries, ssh, sessions_open, returning>>

\* _handle_message -> _process_command -> _execute_commands: a batch that
\* passes the safety loop and needs no confirmation reaches the call of
\* executor.execute for its first command
StartCommands(user, text, commands) ==
    /\ EventLoopFree
    /\ user \notin DOMAIN pending_confirmations
    /\ ~IsHelp(text) /\ ~IsStatus(text) /\ ~IsSwitch(text)
    /\ commands # << >>
    /\ all_safe(commands) /\ ~(needs_confirmation(commands) \/ confirm_all)
    /\ Deliver(user, text, commands)
    /\ results' = << >>
    /\ sent' = NoReply
    /\ CallExecute(build_context(user))
    /\ UNCHANGED <<safetyVars, envVars, memVars, callVars, batchVars, confirm_all, pending_confirmations,
                   current_vps, executing, clock, confirmed, cancelled>>

\* _execute_commands: executor.execute returned; results.append(result),
\* then the failure report (with the suggested fix stored), the call for
\* the next command, or the success report
CommandReturns ==
    /\ exec_pc = "returned" /\ xcall.op = "execute" /\ handled.op = "message"
    /\ LET user == handled.user
           commands == handled.commands
           k == Len(results) + 1
           context == build_context(user)
       IN  /\ results' = Append(results,
                            [user |-> user, cmd |-> commands[k], vps |-> context.vps,
                             origin |-> 0, success |-> exec_result.success])
           /\ IF ~exec_result.success
              THEN \E fix \in Fixes :
                     /\ IF fix # NoFix
                        THEN /\ pending_confirmations' =
                                  Put(pending_confirmations, user,
                                      Entry(<<fix>>, context, clock + 1))
                             /\ clock' = clock + 1
                        ELSE UNCHANGED <<pending_confirmations, clock>>
                     /\ sent' = Reply(user, "failed", <<Note(commands[k], fix)>>)
                     /\ ExecutorReturns
              ELSE IF k < Len(commands)
              THEN /\ CallExecute(context)
                   /\ UNCHANGED <<pending_confirmations, clock, sent>>
              ELSE /\ sent' = Reply(user, "success", << >>)
                   /\ ExecutorReturns
                   /\ UNCHANGED <<pending_confirmations, clock>>
    /\ UNCHANGED <<safetyVars, envVars, memVars, callVars, batchVars, confirm_all, current_vps, executing,
                   received, handled, confirmed, cancelled>>

\* a handler of the help and status commands gets the event loop
HandleSpecial(user, text) ==
    /\ EventLoopFree
    /\ HelpOrStatus(user, text)

\* the switch requests users send: a configured target, an unknown one and
\* none
SwitchTexts == {"switch vps1", "switch vps9", "switch "}

\* _handle_message -> _switch_vps up to the call of
\* self.executor.test_connection: the usage and not-found replies, or the
\* preflight of a configured target starts
SwitchStart(user, text) ==
    /\ EventLoopFree
    /\ Deliver(user, text, NoCommands)
    /\ user \notin DOMAIN pending_confirmations
    /\ ~IsHelp(text) /\ ~IsStatus(text) /\ IsSwitch(text)
    /\ results' = << >>
    /\ IF requested_vps(text) = "" \/ requested_vps(text) \notin VpsNames
       THEN /\ sent' = Reply(user,
                             IF requested_vps(text) = "" THEN "usage" ELSE "vps not found",
                             << >>)
            /\ UNCHANGED execVars
       ELSE /\ sent' = NoReply
            /\ xcall' = Call("test_connection", TRUE, FALSE)
            /\ ssh' = "open"
            /\ sessions_open' = sessions_open + 1
            /\ sessions_opened' = 1
            /\ exec_pc' = "connect"
            /\ UNCHANGED <<max_retries, retries, attempts, returning, exec_result>>
    /\ UNCHANGED <<safetyVars, envVars, memVars, callVars, batchVars, confirm_all, pending_confirmations,
                   current_vps, executing, clock, confirmed, cancelled>>

\* a _switch_vps that sets the target whatever the preflight returned
SwitchFinish_ignores_preflight ==
    /\ exec_pc = "returned" /\ xcall.op = "test_connection" /\ handled.op = "message"
    /\ current_vps' = Put(current_vps, handled.user, requested_vps(handled.text))
    /\ sent' = Reply(handled.user, "switched", << >>)
    /\ ExecutorReturns
    /\ UNCHANGED <<safetyVars, envVars, memVars, callVars, batchVars, confirm_all, pending_confirmations,
                   executing, clock, received, handled, results, confirmed, cancelled>>

\* _switch_vps: test_connection returned (success, test_msg); the target
\* is set on success only
SwitchFinish ==
    /\ exec_pc = "returned" /\ xcall.op = "test_connection" /\ handled.op = "message"
    /\ IF exec_result.success
       THEN /\ current_vps' = Put(current_vps, handled.user, requested_vps(handled.text))
            /\ sent' = Reply(handled.user, "switched", << >>)
       ELSE /\ sent' = Reply(handled.user, "cannot connect", << >>)
            /\ UNCHANGED current_vps
    /\ ExecutorReturns
    /\ UNCHANGED <<safetyVars, envVars, memVars, callVars, batchVars, confirm_all, pending_confirmations,
                   executing, clock, received, handled, results, confirmed, cancelled>>

InitLoop ==
    /\ safety_level = "medium"
    /\ blocked_patterns = << >>
    /\ confirmation_commands = << >>
    /\ command = ""
    /\ result = NoResult
    /\ NoArguments
    /\ confirm_all = FALSE
    /\ InitBot
    /\ max_retries \in 0..MaxRetries
    /\ IdleExecutor
    /\ IdleBatch
    /\ OpenAccess
    /\ EmptyMemory

NextLoop ==
    \/ \E user \in Users, text \in MessageTexts, commands \in Batches :
         StartCommands(user, text, commands)
    \/ LoopTest
    \/ \E outcome \in LocalOutcomes : RunLocal(outcome[1], outcome[2], outcome[3])
    \/ \E outcome \in ConnectOutcomes : Connect(outcome[1], outcome[2])
    \/ \E outcome \in RemoteOutcomes : RunRemote(outcome[1], outcome[2], outcome[3])
    \/ Finally
    \/ CommandReturns
    \/ \E user \in Users, text \in MessageTexts : HandleSpecial(user, text)
    \/ \E user \in Users, text \in SwitchTexts : SwitchStart(user, text)
    \/ \E kind \in TestOutcomes : TestConnect(kind)
    \/ TestFinally
    \/ SwitchFinish

SpecLoop == InitLoop /\ [][NextLoop]_vars

\* a command of _execute_commands is in its retry sequence: an attempt has
\* failed and the next one, or the wait before it, is in progress
RetryInProgress ==
    /\ xcall.op = "execute" /\ handled.op = "message"
    /\ exec_pc \in {"loop", "connect", "run", "finally"}
    /\ retries > 0

\* C23: while the command of one user is in its retry sequence the handler
\* of a message of another user can take its step.
C23_RetryBlocksOnlyItsUser ==
    (RetryInProgress /\ received < MaxMsgs) =>
      \A user \in Users \ {handled.user} : ENABLED HandleSpecial(user, "help")

\* the replies of a switch request that did not switch
NotSwitched == {"usage", "vps not found", "cannot connect"}

\* C26: the connectivity preflight mutates no execution state: the steps of
\* test_connection change no user's active target and no pending entry; a
\* switch request whose target is unknown or whose preflight fails leaves
\* the active target as it was; the active target changes only after a
\* successful preflight of a configured target.
C26_PreflightStep ==
    /\ (xcall.op = "test_connection" /\ exec_pc # "returned") =>
          /\ current_vps' = current_vps
          /\ pending_confirmations' = pending_confirmations
    /\ xcall'.op = "test_connection" =>
          pending_confirmations' = pending_confirmations
    /\ sent'.kind \in NotSwitched => current_vps' = current_vps
    /\ current_vps' # current_vps =>
          /\ xcall.op = "test_connection" /\ exec_pc = "returned"
          /\ exec_result.success
          /\ requested_vps(handled.text) \in VpsNames
          /\ current_vps' = Put(current_vps, handled.user, requested_vps(handled.text))

C26_PreflightMutatesNothing == [][C26_PreflightStep]_vars

\* the preflight of a user's switch fails while another user has a pending
\* entry, and the user keeps the target of an earlier switch
C26_Witness ==
    /\ sent.kind = "cannot connect"
    /\ handled.user \in DOMAIN current_vps
    /\ current_vps[handled.user] \in VpsNames
    /\ pending_confirmations # EmptyMap

---------------------------------------------------------------------------
(* The orchestrator with the history store: every way into               *)
(* _execute_commands, command by command, and the rows memory.add_command *)
(* inserts                                                                *)

\* an add_command that stores the successful commands only
add_command_successes_only(user, cmd, vps, success) ==
    history' =
        IF success
        THEN Append(history, [user |-> user, cmd |-> cmd, vps |-> vps, success |-> success])
        ELSE history

\* memory.add_command(user_id, cmd, vps=vps_name, success=result.success,
\* ...): one row is inserted into the table commands
add_command(user, cmd, vps, success) ==
    history' = Append(history, [user |-> user, cmd |-> cmd, vps |-> vps,
                                success |-> success])

\* _execute_commands: result = self.executor.execute(cmd, ...)
HandCommand(user, cmd, context) ==
    /\ CallExecute(context)
    /\ handed' = Append(handed, [user |-> user, cmd |-> cmd])

\* _execute_commands(context, user_id, commands, ai_context) up to the call
\* of executor.execute for the first command; without commands the success
\* report is sent at once
BeginCommands(user, commands, context, origin) ==
    /\ results' = << >>
    /\ IF commands = << >>
       THEN /\ sent' = Reply(user, "success", << >>)
            /\ UNCHANGED <<execVars, handed, running>>
       ELSE /\ sent' = NoReply
            /\ running' = [user |-> user, commands |-> commands,
                           context |-> context, origin |-> origin]
            /\ HandCommand(user, commands[1], context)
    /\ UNCHANGED <<pending_confirmations, clock, history>>

\* _handle_message -> _process_command on the batch the interpreter
\* returned: reject, ask for confirmation, or _execute_commands
ProcessRecorded(user, text, commands) ==
    /\ EventLoopFree
    /\ user \notin DOMAIN pending_confirmations
    /\ ~IsHelp(text) /\ ~IsStatus(text) /\ ~IsSwitch(text)
    /\ Deliver(user, text, commands)
    /\ IF ~all_safe(commands)
       THEN reject_batch(user, commands) /\ UNCHANGED <<execVars, memVars>>
       ELSE IF needs_confirmation(commands) \/ confirm_all
       THEN store_batch(user, commands) /\ UNCHANGED <<execVars, memVars>>
       ELSE BeginCommands(user, commands, build_context(user), 0)
    /\ UNCHANGED <<safetyVars, envVars, callVars, batchVars, confirm_all, current_vps,
                   executing, confirmed, cancelled>>

\* _handle_message -> _handle_confirmation: the three responses
Respond(user, text) ==
    /\ EventLoopFree
    /\ \/ Confirm(user, text)
       \/ Cancel(user, text)
       \/ Reprompt(user, text)

\* _handle_confirmation resumed after "Executing...": _execute_commands on
\* the commands and the context of the popped entry
ResumeRecorded(frame) ==
    /\ EventLoopFree
    /\ frame \in executing
    /\ executing' = executing \ {frame}
    /\ handled' = Handled("resume", frame.user, "", NoCommands)
    /\ BeginCommands(frame.user, frame.commands, frame.context, frame.origin)
    /\ UNCHANGED <<safetyVars, envVars, callVars, batchVars, confirm_all, current_vps,
                   received, confirmed, cancelled>>

\* _execute_commands: executor.execute returned; results.append(result)
\* and memory.add_command, then the failure report (with the suggested fix
\* stored), the call for the next command, or the success report
CommandRecorded ==
    /\ exec_pc = "returned" /\ xcall.op = "execute" /\ running # NotRunning
    /\ LET user == running.user
           commands == running.commands
           context == running.context
           k == Len(results) + 1
       IN  /\ results' = Append(results,
                            [user |-> user, cmd |-> commands[k], vps |-> context.vps,
                             origin |-> running.origin, success |-> exec_result.success])
           /\ add_command(user, commands[k], context.vps, exec_result.success)
           /\ IF ~exec_result.success
              THEN \E fix \in Fixes :
                     /\ IF fix # NoFix
                        THEN /\ pending_confirmations' =
                                  Put(pending_confirmations, user,
                                      Entry(<<fix>>, context, clock + 1))
                             /\ clock' = clock + 1
                        ELSE UNCHANGED <<pending_confirmations, clock>>
                     /\ sent' = Reply(user, "failed", <<Note(commands[k], fix)>>)
                     /\ ExecutorReturns
                     /\ running' = NotRunning
                     /\ UNCHANGED handed
              ELSE IF k < Len(commands)
              THEN /\ HandCommand(user, commands[k + 1], context)
                   /\ UNCHANGED <<pending_confirmations, clock, sent, running>>
              ELSE /\ sent' = Reply(user, "success", << >>)
                   /\ ExecutorReturns
                   /\ running' = NotRunning
                   /\ UNCHANGED <<pending_confirmations, clock, handed>>
    /\ UNCHANGED <<safetyVars, envVars, callVars, batchVars, confirm_all, current_vps, executing,
                   received, handled, confirmed, cancelled>>

\* how the attempts of this specification end: with exit code 0 or 1
ExitOutcomes == {outcome \in LocalOutcomes : outcome[1] = "exit" /\ outcome[2] \in {0, 1}}

\* the batches the interpreter returns in this specification: one that runs
\* at once, one whose second command may be left out, one that is stored
\* and one that is rejected
RecordedBatches == {<<"make">>, <<"make", "make">>, <<"reboot">>, <<"make", "mkfs">>}

\* an Executor that retries once
InitHistory ==
    /\ safety_level = "medium"
    /\ blocked_patterns = << >>
    /\ confirmation_commands = << >>
    /\ command = ""
    /\ result = NoResult
    /\ NoArguments
    /\ confirm_all = FALSE
    /\ InitBot
    /\ max_retries = 1
    /\ IdleExecutor
    /\ IdleBatch
    /\ OpenAccess
    /\ EmptyMemory

NextHistory ==
    \/ \E user \in Users, text \in MessageTexts, commands \in RecordedBatches :
         ProcessRecorded(user, text, commands)
    \/ \E user \in Users, text \in MessageTexts : Respond(user, text)
    \/ \E frame \in executing : ResumeRecorded(frame)
    \/ LoopTest
    \/ \E outcome \in ExitOutcomes : RunLocal(outcome[1], outcome[2], outcome[3])
    \/ CommandRecorded

SpecHistory == InitHistory /\ [][NextHistory]_vars

\* the rows of the table commands as the pairs (user, command)
Rows == [k \in DOMAIN history |-> [user |-> history[k].user, cmd |-> history[k].cmd]]

\* the rows are the commands handed to the Executor, in the order of the
\* calls, without the command whose call has not returned yet; and the last
\* rows are the calls of the handler that made them, each with the success
\* flag of the result the call returned
C36_RowsAreCalls ==
    /\ IF running # NotRunning
       THEN /\ Len(handed) = Len(history) + 1
            /\ SubSeq(handed, 1, Len(history)) = Rows
            /\ handed[Len(handed)] =
                 [user |-> running.user, cmd |-> running.commands[Len(results) + 1]]
       ELSE handed = Rows
    /\ Len(results) <= Len(history)
    /\ \A k \in 1..Len(results) :
         history[Len(history) - Len(results) + k] =
            [user |-> results[k].user, cmd |-> results[k].cmd,
             vps |-> results[k].vps, success |-> results[k].success]

\* a row is written by the step that takes the result of a returned call,
\* and by no other: not by an attempt or a retry, not by a rejection, a
\* preview, a cancellation or a re-prompt; and no row is changed or removed
C36_RowStep ==
    /\ history' # history =>
         /\ exec_pc = "returned" /\ xcall.op = "execute"
         /\ history' = Append(history,
                              [user |-> handed[Len(handed)].user,
                               cmd |-> handed[Len(handed)].cmd,
                               vps |-> running.context.vps,
                               success |-> exec_result.success])
    /\ (exec_pc = "returned" /\ xcall.op = "execute") => Len(history') = Len(history) + 1
    /\ sent'.kind \in {"blocked", "preview", "cancelled", "reprompt", "executing"} =>
         history' = history /\ handed' = handed

\* C36: history is appended once per attempted command: the command rows of
\* the history store are exactly the commands handed to the ExecutionEngine,
\* one row per command and not per retry attempt, in execution order, each
\* with the success flag of its final result; blocked, cancelled and
\* never-attempted commands have no row.
C36_HistoryOncePerCommand ==
    [](C36_RowsAreCalls) /\ [][C36_RowStep]_vars

\* a confirmed batch has failed after an earlier batch of the same user ran:
\* one row for the command that succeeded, one for the command that failed
C36_Witness ==
    /\ handled.op = "resume" /\ sent.kind = "failed"
    /\ Len(history) = 2
    /\ history[1] = [user |-> handled.user, cmd |-> "make", vps |-> NoVps, success |-> TRUE]
    /\ history[2] = [user |-> handled.user, cmd |-> "reboot", vps |-> NoVps, success |-> FALSE]

=============================================================================
